---------------------------- MODULE Spec2Model ----------------------------
(***************************************************************************)
(* Metadata-driven controller registration, router building, OpenAPI       *)
(* document generation, and the rate-limit / response-cache middlewares    *)
(* of the expanding-restfull-api repository.                               *)
(*                                                                         *)
(* Strings that the code takes apart (route paths, file and controller     *)
(* names) are sequences of one-character strings; strings that the code    *)
(* only compares (verbs, cache keys, payloads) are TLA+ strings.  An       *)
(* optional value (T | undefined) is a sequence of length 0 or 1.          *)
(***************************************************************************)
EXTENDS Integers, Sequences, FiniteSets, TLC

VARIABLES
    controllers,     \* controllerRegistry.controllers: insertion-ordered Map
    routeMappings,   \* OpenAPIGenerator.routeMappings
    ret,             \* what the most recent registry / generator call returned or threw
    disc,            \* the running autoDiscoverControllers call (its locals)
    loaded,          \* controller files whose top-level code has run (import succeeded)
    now,             \* Date.now()
    rateLimitStore,  \* utility.decorator.ts rateLimitStore
    rlWindow,        \* per key: requests answered under the window last reported to it
    rlLast,          \* the rate limiter's answer to the most recent request
    cache,           \* utility.decorator.ts cache
    cacheOptions,    \* the options the cached route's @Cache was given
    pending,         \* cache misses whose res.json has been wrapped but not yet called
    cacheLast,       \* the most recent response that left the cache middleware
    snapshot,        \* a Map a caller obtained from getAllControllers and still holds
    generated,       \* per basePath, the paths generateSpec returned since the registry
                     \* and the route mappings last changed
    registered,      \* per name, the metadata of the most recent register call
    served,          \* the last two documents the spec endpoint answered with
    initialized      \* the route mappings as the last initialize left them, with the
                     \* names the registry held when it was called

vars == <<controllers, routeMappings, ret, disc, loaded, now,
          rateLimitStore, rlWindow, rlLast, cache, cacheOptions, pending, cacheLast,
          snapshot, generated, registered, served, initialized>>

regVars   == <<controllers, routeMappings, ret>>
discVars  == <<disc, loaded>>
rlVars    == <<rateLimitStore, rlWindow, rlLast>>
cacheVars == <<cache, cacheOptions, pending, cacheLast>>
heldVars  == <<snapshot, generated, registered, served, initialized>>

(***************************************************************************)
(* Generic helpers                                                         *)
(***************************************************************************)
Range(s) == {s[i] : i \in 1..Len(s)}

Put(f, k, v) == [x \in (DOMAIN f) \cup {k} |-> IF x = k THEN v ELSE f[x]]

EmptyMap == [x \in {} |-> {}]

RECURSIVE SeqsUpTo(_, _)
SeqsUpTo(S, n) ==
    IF n = 0 THEN {<<>>}
    ELSE LET shorter == SeqsUpTo(S, n - 1)
         IN  shorter \cup {Append(s, x) : s \in {t \in shorter : Len(t) = n - 1}, x \in S}

(***************************************************************************)
(* Bounds of the model                                                     *)
(***************************************************************************)
MaxMethods == 2
MaxPathLen == 5
MaxTime    == 6
MaxCount   == 4
MaxPending == 2
MaxFiles == 3
MaxCacheTime == 4
MaxAnnotators == 3

(***************************************************************************)
(* Character strings                                                       *)
(***************************************************************************)
Slash == "/"
Colon == ":"

ControllerSuffix == <<"C", "o", "n", "t", "r", "o", "l", "l", "e", "r">>

UserController == <<"U", "s", "e", "r">> \o ControllerSuffix
PostController == <<"P", "o", "s", "t">> \o ControllerSuffix
Nonexistent    == <<"N", "o", "n", "e", "x", "i", "s", "t", "e", "n", "t">>

RootPath == <<"/">>
IdPath   == <<"/", ":", "i", "d">>

\* basePath arguments passed to the router builders and the generators
BasePaths == {<<>>, <<"/", "v", "1">>, <<"/", ":", "v">>}


(***************************************************************************)
(* Handlers and annotated methods                                          *)
(***************************************************************************)
SupportedVerbs == {"get", "post", "put", "patch", "delete"}

MethodName(i) == "m" \o ToString(i)

\* The function a class body declares for method `m` of class `owner`.
RawMethod(owner, m) ==
    [kind |-> "method", owner |-> owner, name |-> m, receiver |-> <<>>, wrapped |-> FALSE]

\* A middleware produced by createLogMiddleware, createRateLimitMiddleware, ...
Middleware(factory) ==
    [kind |-> "middleware", owner |-> <<>>, name |-> factory, receiver |-> <<>>, wrapped |-> FALSE]

\* Function.prototype.bind
Bind(fn, instance) == [fn EXCEPT !.receiver = <<instance>>]

\* catchAsync(handler): next receives whatever the handler throws or rejects with
CatchAsync(fn) == [fn EXCEPT !.wrapped = TRUE]

\* new constructor()
NewInstance(cls, serial) == [class |-> cls.name, serial |-> serial]

FunctionValue(fn) == [isArray |-> FALSE, items |-> <<fn>>]

\* mutant: the middlewares inserted earlier are dropped
AnnotateReplacing(originalMethod, middleware) ==
    [isArray |-> TRUE,
     items |-> <<middleware, originalMethod.items[Len(originalMethod.items)]>>]

\* mutant: the new middleware goes to the front of the chain
AnnotateInFront(originalMethod, middleware) ==
    [isArray |-> TRUE, items |-> <<middleware>> \o originalMethod.items]

\* What RateLimit / Cache / LogRequest / Monitor leave in descriptor.value.
Annotate(originalMethod, middleware) ==
    IF originalMethod.isArray
    THEN LET n == Len(originalMethod.items)
             lastHandler == originalMethod.items[n]
         IN  [isArray |-> TRUE,
              items |-> SubSeq(originalMethod.items, 1, n - 1) \o <<middleware, lastHandler>>]
    ELSE [isArray |-> TRUE, items |-> <<middleware, originalMethod.items[1]>>]

RECURSIVE AnnotateAll(_, _)
AnnotateAll(value, mws) ==
    IF mws = <<>> THEN value
    ELSE AnnotateAll(Annotate(value, Middleware(Head(mws))), Tail(mws))

\* Get / Post / Put / Patch / Delete: the "route:info" metadata of a method
RouteDecorator(verb, path) == [method |-> verb, path |-> path]

(***************************************************************************)
(* Classes handed to Controller.  A class is its constructor name and its  *)
(* methods in declaration order; a method carries the cross-cutting        *)
(* annotators applied to it (in order of application) and the route        *)
(* metadata a route annotator attached, if any.                            *)
(***************************************************************************)
RoutePaths == {RootPath, IdPath}

\* the methods a class may declare: a helper, routes with and without
\* cross-cutting annotators, and an annotated method that is no route
MethodOptions ==
    {[mws |-> <<>>, routeInfo |-> <<>>],
     [mws |-> <<>>, routeInfo |-> <<RouteDecorator("get", RootPath)>>],
     [mws |-> <<"rateLimit", "logRequest">>, routeInfo |-> <<RouteDecorator("post", RootPath)>>],
     [mws |-> <<"rateLimit", "logRequest">>, routeInfo |-> <<RouteDecorator("get", IdPath)>>],
     [mws |-> <<"rateLimit", "logRequest">>, routeInfo |-> <<>>]}

MakeClass(name, opts) ==
    [name |-> name,
     methods |-> [i \in 1..Len(opts) |->
                    [name |-> MethodName(i), mws |-> opts[i].mws,
                     routeInfo |-> opts[i].routeInfo]]]

UserClasses == {MakeClass(UserController, opts) : opts \in SeqsUpTo(MethodOptions, MaxMethods)}

PostClasses ==
    {MakeClass(PostController, <<[mws |-> <<"logRequest">>, routeInfo |-> <<RouteDecorator("get", p)>>]>>) :
        p \in RoutePaths}

Classes == UserClasses \cup PostClasses

\* Object.getOwnPropertyNames(prototype) with the value of each property
Prototype(cls) ==
    <<[name |-> "constructor", value |-> FunctionValue(RawMethod(cls.name, "constructor"))]>>
    \o [i \in 1..Len(cls.methods) |->
          [name |-> cls.methods[i].name,
           value |-> AnnotateAll(FunctionValue(RawMethod(cls.name, cls.methods[i].name)),
                                 cls.methods[i].mws)]]

\* Reflect.getMetadata("route:info", prototype, methodName)
RouteInfoOf(cls, methodName) ==
    LET hits == {i \in 1..Len(cls.methods) : cls.methods[i].name = methodName}
    IN  IF hits = {} THEN <<>> ELSE cls.methods[CHOOSE i \in hits : TRUE].routeInfo

(***************************************************************************)
(* ControllerRegistry: a JavaScript Map, i.e. entries in insertion order   *)
(***************************************************************************)
MapHas(m, k) == \E i \in 1..Len(m) : m[i].name = k

MapIndex(m, k) == CHOOSE i \in 1..Len(m) : m[i].name = k

MapGet(m, k) == IF MapHas(m, k) THEN <<m[MapIndex(m, k)].meta>> ELSE <<>>

\* mutant: a name that is already registered keeps its first metadata
MapSetFirstWins(m, k, v) ==
    IF MapHas(m, k) THEN m ELSE Append(m, [name |-> k, meta |-> v])

MapSet(m, k, v) ==
    IF MapHas(m, k)
    THEN [m EXCEPT ![MapIndex(m, k)] = [name |-> k, meta |-> v]]
    ELSE Append(m, [name |-> k, meta |-> v])

MapKeys(m) == [i \in 1..Len(m) |-> m[i].name]

RegistryGet(name) == MapGet(controllers, name)

GetControllerMethods(name) ==
    IF RegistryGet(name) = <<>> THEN <<>> ELSE <<RegistryGet(name)[1].methods>>

GetControllerRoutes(name) ==
    IF RegistryGet(name) = <<>> THEN <<>> ELSE <<RegistryGet(name)[1].routes>>

(***************************************************************************)
(* Controller(name)(constructor)                                           *)
(***************************************************************************)
MethodNames(prototype) ==
    SelectSeq(prototype, LAMBDA prop : prop.name # "constructor")

\* one iteration of "for (const methodName of methodNames)"
MethodMetadataOf(cls, prop, instance) ==
    LET method == prop.value
        middlewares == IF method.isArray
                       THEN SubSeq(method.items, 1, Len(method.items) - 1)
                       ELSE <<>>
        handler == IF method.isArray
                   THEN method.items[Len(method.items)]
                   ELSE Bind(method.items[1], instance)
    IN  [name |-> prop.name,
         middlewares |-> middlewares,
         handler |-> handler,
         boundHandler |-> CatchAsync(handler),
         routeInfo |-> RouteInfoOf(cls, prop.name)]

RouteMetadataOf(mm) ==
    [method |-> mm.routeInfo[1].method,
     path |-> mm.routeInfo[1].path,
     handler |-> mm.boundHandler,
     middlewares |-> mm.middlewares]

\* mutant: routes pushed to the front of the list instead of its end
RECURSIVE CollectRoutesReversed(_, _, _)
CollectRoutesReversed(cls, props, instance) ==
    IF props = <<>> THEN <<>>
    ELSE LET mm == MethodMetadataOf(cls, Head(props), instance)
             rest == CollectRoutesReversed(cls, Tail(props), instance)
         IN  IF mm.routeInfo # <<>> THEN rest \o <<RouteMetadataOf(mm)>> ELSE rest

RECURSIVE CollectRoutes(_, _, _)
CollectRoutes(cls, props, instance) ==
    IF props = <<>> THEN <<>>
    ELSE LET mm == MethodMetadataOf(cls, Head(props), instance)
             rest == CollectRoutes(cls, Tail(props), instance)
         IN  IF mm.routeInfo # <<>> THEN <<RouteMetadataOf(mm)>> \o rest ELSE rest

ControllerMetadataOf(cls) ==
    LET instance == NewInstance(cls, "registered")
        props == MethodNames(Prototype(cls))
    IN  [target |-> cls,
         instance |-> <<instance>>,
         methods |-> [n \in {props[i].name : i \in 1..Len(props)} |->
                        MethodMetadataOf(cls,
                            props[CHOOSE i \in 1..Len(props) : props[i].name = n], instance)],
         routes |-> CollectRoutes(cls, props, instance)]

\* the metadata Controller commits for each class of the model
MetadataByClass == [cls \in Classes |-> ControllerMetadataOf(cls)]

\* name || constructor.name
ControllerNameOf(nameArg, cls) == IF nameArg # <<>> THEN nameArg ELSE cls.name

(***************************************************************************)
(* Metadata handed to controllerRegistry.register directly: the registry   *)
(* does not validate it, and RouteMetadata.method is a plain string.       *)
(***************************************************************************)
ExternalTarget == [name |-> <<>>, methods |-> <<>>]

ExternalHandler(m) == CatchAsync(RawMethod(<<>>, m))

ExternalRoute(verb, path, m) ==
    [method |-> verb, path |-> path, handler |-> ExternalHandler(m), middlewares |-> <<>>]

ExternalMetadata(routes) ==
    [target |-> ExternalTarget, instance |-> <<>>, methods |-> EmptyMap, routes |-> routes]

ExternalMetas ==
    {ExternalMetadata(<<ExternalRoute("options", RootPath, "m1"), ExternalRoute("get", IdPath, "m2")>>),
     ExternalMetadata(<<ExternalRoute("get", RootPath, "m1"), ExternalRoute("head", RootPath, "m2")>>)}

RegisteredNames == {UserController, PostController}

(***************************************************************************)
(* createRouter / buildRoutes                                              *)
(***************************************************************************)
NotFoundError == "Controller not found in registry"

\* router.get(fullPath, ...handlers) and its four siblings
Mount(router, verb, fullPath, handlers) ==
    Append(router, [verb |-> verb, path |-> fullPath, handlers |-> handlers])

\* mutant: a route with an unknown verb ends the loop
RECURSIVE MountRoutesStopping(_, _, _)
MountRoutesStopping(router, routes, basePath) ==
    IF routes = <<>> THEN router
    ELSE LET route == Head(routes)
             fullPath == basePath \o route.path
             handlers == route.middlewares \o <<route.handler>>
         IN  IF route.method \in SupportedVerbs
             THEN MountRoutesStopping(Mount(router, route.method, fullPath, handlers),
                                      Tail(routes), basePath)
             ELSE router

RECURSIVE MountRoutes(_, _, _)
MountRoutes(router, routes, basePath) ==
    IF routes = <<>> THEN router
    ELSE LET route == Head(routes)
             fullPath == basePath \o route.path
             handlers == route.middlewares \o <<route.handler>>
             mounted == CASE route.method = "get"    -> Mount(router, "get", fullPath, handlers)
                          [] route.method = "post"   -> Mount(router, "post", fullPath, handlers)
                          [] route.method = "put"    -> Mount(router, "put", fullPath, handlers)
                          [] route.method = "patch"  -> Mount(router, "patch", fullPath, handlers)
                          [] route.method = "delete" -> Mount(router, "delete", fullPath, handlers)
                          [] OTHER                   -> router
         IN  MountRoutes(mounted, Tail(routes), basePath)

\* mutant: an unknown controller yields an empty router instead of an error
CreateRouterLenient(controllerName, basePath) ==
    LET controller == RegistryGet(controllerName)
    IN  IF controller = <<>>
        THEN [error |-> "", router |-> <<<<>>>>]
        ELSE [error |-> "", router |-> <<MountRoutes(<<>>, controller[1].routes, basePath)>>]

\* ControllerRegistryManager.createRouter
CreateRouter(controllerName, basePath) ==
    LET controller == RegistryGet(controllerName)
    IN  IF controller = <<>>
        THEN [error |-> NotFoundError, router |-> <<>>]
        ELSE [error |-> "", router |-> <<MountRoutes(<<>>, controller[1].routes, basePath)>>]

\* route.decorator's buildRoutes: the same loop, without the warning
BuildRoutes(controllerName, basePath) ==
    LET controller == RegistryGet(controllerName)
    IN  IF controller = <<>>
        THEN [error |-> NotFoundError, router |-> <<>>]
        ELSE [error |-> "", router |-> <<MountRoutes(<<>>, controller[1].routes, basePath)>>]


(***************************************************************************)
(* Documentation generator                                                 *)
(***************************************************************************)
\* the end of the longest run of non-"/" characters that starts at i
RunEnd(p, i) ==
    CHOOSE j \in i..Len(p) :
        /\ \A k \in i..j : p[k] # Slash
        /\ j = Len(p) \/ p[j + 1] = Slash

\* path.replace(/:([^/]+)/g, "{$1}"), scanning from position i
RECURSIVE ReplaceFrom(_, _)
ReplaceFrom(p, i) ==
    IF i > Len(p) THEN <<>>
    ELSE IF p[i] = Colon /\ i < Len(p) /\ p[i + 1] # Slash
         THEN LET j == RunEnd(p, i + 1)
              IN  <<"{">> \o SubSeq(p, i + 1, j) \o <<"}">> \o ReplaceFrom(p, j + 1)
         ELSE <<p[i]>> \o ReplaceFrom(p, i + 1)

\* mutant: the regular expression without its g flag (first match only)
ReplaceFirstParam(p) ==
    LET starts == {i \in 1..Len(p) : p[i] = Colon /\ i < Len(p) /\ p[i + 1] # Slash}
    IN  IF starts = {} THEN p
        ELSE LET i == CHOOSE x \in starts : \A y \in starts : x <= y
                 j == RunEnd(p, i + 1)
             IN  SubSeq(p, 1, i - 1) \o <<"{">> \o SubSeq(p, i + 1, j) \o <<"}">>
                 \o SubSeq(p, j + 1, Len(p))

ReplaceParams(p) == ReplaceFrom(p, 1)

\* path.match(/:([^/]+)/g) mapped to param.substring(1)
RECURSIVE ParamsFrom(_, _)
ParamsFrom(p, i) ==
    IF i > Len(p) THEN <<>>
    ELSE IF p[i] = Colon /\ i < Len(p) /\ p[i + 1] # Slash
         THEN LET j == RunEnd(p, i + 1)
              IN  <<SubSeq(p, i + 1, j)>> \o ParamsFrom(p, j + 1)
         ELSE ParamsFrom(p, i + 1)

PathParams(p) == ParamsFrom(p, 1)

BaselineStatuses == {200, 400, 401, 403, 404, 429, 500}

\* the operation object of one route
Operation(route) ==
    [responses |-> BaselineStatuses, parameters |-> PathParams(route.path)]

\* pathKey of ControllerRegistryManager.generateOpenAPISpec
PathKey(path) ==
    LET pathKey == ReplaceParams(path)
    IN  IF pathKey = <<Slash>> THEN <<>> ELSE pathKey

RECURSIVE DocumentRoutes(_, _)
DocumentRoutes(paths, routes) ==
    IF routes = <<>> THEN paths
    ELSE LET route == Head(routes)
             pathKey == PathKey(route.path)
             seeded == IF pathKey \in DOMAIN paths THEN paths ELSE Put(paths, pathKey, EmptyMap)
             filled == Put(seeded, pathKey, Put(seeded[pathKey], route.method, Operation(route)))
         IN  DocumentRoutes(filled, Tail(routes))

\* ControllerRegistryManager.generateOpenAPISpec(controllerName): its paths
GenerateOpenAPISpec(controllerName) ==
    LET controller == RegistryGet(controllerName)
    IN  IF controller = <<>> THEN EmptyMap
        ELSE DocumentRoutes(EmptyMap, controller[1].routes)

\* the responses the generateOpenAPISpec function of the route decorators
\* module gives every operation
FunctionStatuses == {200, 400, 401, 403, 404, 500}

RECURSIVE FunctionRoutes(_, _, _)
FunctionRoutes(paths, routes, basePath) ==
    IF routes = <<>> THEN paths
    ELSE LET route == Head(routes)
             normalizedPath == IF route.path = <<Slash>> THEN <<>> ELSE route.path
             fullPath == ReplaceParams(basePath \o normalizedPath)
             seeded == IF fullPath \in DOMAIN paths THEN paths ELSE Put(paths, fullPath, EmptyMap)
             operation == [responses |-> FunctionStatuses,
                           parameters |-> PathParams(basePath \o route.path)]
             filled == Put(seeded, fullPath, Put(seeded[fullPath], route.method, operation))
         IN  FunctionRoutes(filled, Tail(routes), basePath)

\* generateOpenAPISpec(controllerName, basePath) of the route decorators module
GenerateOpenAPISpecFunction(controllerName, basePath) ==
    LET controller == RegistryGet(controllerName)
    IN  IF controller = <<>>
        THEN [error |-> "not found", paths |-> EmptyMap]
        ELSE [error |-> "", paths |-> FunctionRoutes(EmptyMap, controller[1].routes, basePath)]

\* this.routeMappings.find(m => m.controllerName === controllerName)?.routePrefix || ""
\* mutant: find without its test, the first mapping of the list is taken
RoutePrefixOfFirst(controllerName) ==
    IF routeMappings = <<>> THEN <<>> ELSE routeMappings[1].routePrefix

RoutePrefixOf(controllerName) ==
    LET hits == {i \in 1..Len(routeMappings) : routeMappings[i].controllerName = controllerName}
    IN  IF hits = {} THEN <<>>
        ELSE routeMappings[CHOOSE i \in hits : \A j \in hits : i <= j].routePrefix

\* fullPath of OpenAPIGenerator.generateSpec
FullPath(basePath, routePrefix, path) ==
    LET normalizedPath == IF path = <<Slash>> THEN <<>> ELSE path
    IN  basePath \o routePrefix \o normalizedPath

\* baseSpec.paths after the inner loop over one controller's paths
AddControllerPaths(paths, controllerName, basePath) ==
    LET routePrefix == RoutePrefixOf(controllerName)
        controllerSpec == GenerateOpenAPISpec(controllerName)
        fullPaths == {FullPath(basePath, routePrefix, k) : k \in DOMAIN controllerSpec}
    IN  [fp \in (DOMAIN paths) \cup fullPaths |->
            IF fp \in fullPaths
            THEN controllerSpec[CHOOSE k \in DOMAIN controllerSpec :
                                    FullPath(basePath, routePrefix, k) = fp]
            ELSE paths[fp]]

RECURSIVE SpecPaths(_, _, _)
SpecPaths(paths, names, basePath) ==
    IF names = <<>> THEN paths
    ELSE SpecPaths(AddControllerPaths(paths, Head(names), basePath), Tail(names), basePath)

\* mutant: baseSpec.paths starts from the paths of the document returned last
GenerateSpecKeeping(basePath) == SpecPaths(ret.paths, MapKeys(controllers), basePath)

\* OpenAPIGenerator.generateSpec(basePath): its paths
GenerateSpec(basePath) == SpecPaths(EmptyMap, MapKeys(controllers), basePath)

(***************************************************************************)
(* Registry specification: registration and the calls that read it         *)
(***************************************************************************)
RouterBasePaths == {<<>>, <<"/", "v", "1">>}

QueryNames == RegisteredNames \cup {Nonexistent}

Returned(op, name, basePath, error, router, paths, value) ==
    [op |-> op, name |-> name, basePath |-> basePath, error |-> error,
     router |-> router, paths |-> paths, value |-> value]

NoReturn == Returned("none", <<>>, <<>>, "", <<>>, EmptyMap, <<>>)

RegInit ==
    /\ controllers = <<>>
    /\ registered = EmptyMap
    /\ routeMappings = <<>>
    /\ ret = NoReturn

NoDiscovery ==
    [running |-> FALSE, dir |-> <<>>, files |-> <<>>, next |-> 1, mappings |-> <<>>, result |-> <<>>]

IdleInit ==
    /\ disc = NoDiscovery
    /\ loaded = {}
    /\ now = 0
    /\ rateLimitStore = EmptyMap
    /\ rlWindow = EmptyMap
    /\ rlLast = <<>>
    /\ cache = EmptyMap
    /\ cacheOptions = [ttl |-> 2, condition |-> FALSE]
    /\ pending = <<>>
    /\ cacheLast = <<>>
    /\ snapshot = <<>>
    /\ served = <<>>
    /\ initialized = <<>>
    /\ generated = EmptyMap

\* @Controller(name) class ... : the decorator runs when the class is defined.
\* Calls run one at a time: a class is defined once the caller of the previous
\* call has let go of what it returned.
Controller(nameArg, cls) ==
    /\ ret = NoReturn
    /\ controllers' = MapSet(controllers, ControllerNameOf(nameArg, cls), MetadataByClass[cls])
    /\ registered' = Put(registered, ControllerNameOf(nameArg, cls), MetadataByClass[cls])
    /\ ret' = NoReturn
    /\ generated' = EmptyMap
    /\ UNCHANGED <<routeMappings, discVars, now, rlVars, cacheVars, snapshot, served, initialized>>

\* controllerRegistry.register(name, metadata)
Register(name, metadata) ==
    /\ ret = NoReturn
    /\ controllers' = MapSet(controllers, name, metadata)
    /\ registered' = Put(registered, name, metadata)
    /\ ret' = NoReturn
    /\ generated' = EmptyMap
    /\ UNCHANGED <<routeMappings, discVars, now, rlVars, cacheVars, snapshot, served, initialized>>

CallCreateRouter(name, basePath) ==
    /\ LET r == CreateRouter(name, basePath)
       IN  ret' = Returned("createRouter", name, basePath, r.error, r.router, EmptyMap, <<>>)
    /\ UNCHANGED <<controllers, routeMappings, discVars, now, rlVars, cacheVars, heldVars>>

CallBuildRoutes(name, basePath) ==
    /\ LET r == BuildRoutes(name, basePath)
       IN  ret' = Returned("buildRoutes", name, basePath, r.error, r.router, EmptyMap, <<>>)
    /\ UNCHANGED <<controllers, routeMappings, discVars, now, rlVars, cacheVars, heldVars>>

CallGenerateOpenAPISpec(name) ==
    /\ ret' = Returned("generateOpenAPISpec", name, <<>>, "", <<>>, GenerateOpenAPISpec(name), <<>>)
    /\ UNCHANGED <<controllers, routeMappings, discVars, now, rlVars, cacheVars, heldVars>>

CallGenerateOpenAPISpecFunction(name, basePath) ==
    /\ LET r == GenerateOpenAPISpecFunction(name, basePath)
       IN  ret' = Returned("generateOpenAPISpec function", name, basePath, r.error, <<>>,
                           r.paths, <<>>)
    /\ UNCHANGED <<controllers, routeMappings, discVars, now, rlVars, cacheVars, heldVars>>

CallGetControllerRoutes(name) ==
    /\ ret' = Returned("getControllerRoutes", name, <<>>, "", <<>>, EmptyMap, GetControllerRoutes(name))
    /\ UNCHANGED <<controllers, routeMappings, discVars, now, rlVars, cacheVars, heldVars>>

\* the caller lets go of the returned router, document or route list
Release ==
    /\ ret # NoReturn
    /\ ret' = NoReturn
    /\ UNCHANGED <<controllers, routeMappings, discVars, now, rlVars, cacheVars, heldVars>>

\* @Controller("PostController") class PostController / @Controller() class UserController
NameArgs(cls) == IF cls \in PostClasses THEN {cls.name} ELSE {<<>>}

Init == RegInit /\ IdleInit

Next ==
    \/ \E cls \in Classes : \E nameArg \in NameArgs(cls) : Controller(nameArg, cls)
    \/ \E name \in RegisteredNames : \E metadata \in ExternalMetas : Register(name, metadata)
    \/ \E name \in QueryNames : \E basePath \in RouterBasePaths : CallCreateRouter(name, basePath)
    \/ \E name \in QueryNames : \E basePath \in RouterBasePaths : CallBuildRoutes(name, basePath)
    \/ \E name \in QueryNames : CallGenerateOpenAPISpec(name)
    \/ \E name \in QueryNames : \E basePath \in RouterBasePaths :
          CallGenerateOpenAPISpecFunction(name, basePath)
    \/ \E name \in QueryNames : CallGetControllerRoutes(name)
    \/ Release

Spec == Init /\ [][Next]_vars


(***************************************************************************)
(* C1: the routes a router builder mounts and the operations the           *)
(* generator documents                                                     *)
(***************************************************************************)
MountedPairs(router) == {<<e.verb, PathKey(e.path)>> : e \in Range(router)}

DocumentedPairs(paths) == UNION {{<<v, k>> : v \in DOMAIN paths[k]} : k \in DOMAIN paths}

\* C1: whenever the generator has documented a registered controller, the
\* (verb, path) pairs of its operations are exactly the pairs createRouter and
\* buildRoutes mount for that controller (":name" read as "{name}").
C1_RouterMatchesDocument ==
    (ret.op = "generateOpenAPISpec" /\ RegistryGet(ret.name) # <<>>) =>
        /\ MountedPairs(CreateRouter(ret.name, <<>>).router[1]) = DocumentedPairs(ret.paths)
        /\ MountedPairs(BuildRoutes(ret.name, <<>>).router[1]) = DocumentedPairs(ret.paths)

(***************************************************************************)
(* C2: getControllerRoutes after Controller                                *)
(***************************************************************************)
ViaController(meta) == meta.target # ExternalTarget

Annotated(cls) == {i \in 1..Len(cls.methods) : cls.methods[i].routeInfo # <<>>}

RankAmong(S, i) == Cardinality({j \in S : j <= i})

RoutesMatchClass(routes, cls) ==
    /\ Len(routes) = Cardinality(Annotated(cls))
    /\ \A i \in Annotated(cls) :
         LET r == routes[RankAmong(Annotated(cls), i)]
         IN  /\ r.method = cls.methods[i].routeInfo[1].method
             /\ r.path = cls.methods[i].routeInfo[1].path
             /\ r.handler.name = cls.methods[i].name

\* C2: for every class registered by Controller, getControllerRoutes returns one
\* route per method that carried a RouteInfo, none for the others, in the order
\* the class declares its methods; every method of the class, annotated or not,
\* is in the methods map (so a class without annotated methods is registered
\* with an empty route list).
C2_RoutesOfAnnotatedMethods ==
    /\ \A name \in RegisteredNames :
         (RegistryGet(name) # <<>> /\ ViaController(RegistryGet(name)[1])) =>
            LET cls == RegistryGet(name)[1].target
            IN  /\ RoutesMatchClass(GetControllerRoutes(name)[1], cls)
                /\ DOMAIN GetControllerMethods(name)[1] =
                       {cls.methods[i].name : i \in 1..Len(cls.methods)}
    /\ (ret.op = "getControllerRoutes" /\ RegistryGet(ret.name) # <<>>
            /\ ViaController(RegistryGet(ret.name)[1])) =>
         /\ ret.value # <<>>
         /\ RoutesMatchClass(ret.value[1], RegistryGet(ret.name)[1].target)

\* a class whose first method has no route and whose second has one was
\* registered and its routes were asked for
C2_Witness ==
    /\ ret.op = "getControllerRoutes"
    /\ RegistryGet(ret.name) # <<>>
    /\ ViaController(RegistryGet(ret.name)[1])
    /\ LET cls == RegistryGet(ret.name)[1].target
       IN  /\ Len(cls.methods) = 2
           /\ cls.methods[1].routeInfo = <<>>
           /\ cls.methods[2].routeInfo # <<>>
    /\ Len(ret.value[1]) = 1

(***************************************************************************)
(* C8: router builders on an unknown controller name                       *)
(***************************************************************************)
IsBuilderCall(r) == r.op \in {"createRouter", "buildRoutes"}

\* C8: createRouter / buildRoutes on a name absent from the registry throw the
\* not-found error and return no router, and a call of either leaves the
\* registry as it was.
C8_UnknownControllerFails ==
    /\ [](IsBuilderCall(ret) /\ RegistryGet(ret.name) = <<>> =>
            ret.error = NotFoundError /\ ret.router = <<>>)
    /\ [][IsBuilderCall(ret') /\ ret' # ret => controllers' = controllers]_vars

\* a builder was called with a name the (non-empty) registry does not hold
C8_Witness ==
    /\ IsBuilderCall(ret)
    /\ controllers # <<>>
    /\ RegistryGet(ret.name) = <<>>
    /\ ret.error = NotFoundError


(***************************************************************************)
(* Path specification: generateSpec over one controller whose single       *)
(* route has an arbitrary path                                             *)
(***************************************************************************)
PathChars == {Slash, Colon, "a"}

AnyPaths == SeqsUpTo(PathChars, MaxPathLen)

UsersPrefix == <<"/", "u", "s", "e", "r", "s">>
PostsPrefix == <<"/", "p", "o", "s", "t", "s">>

RouteMapping(controllerName, routePrefix) ==
    [controllerName |-> controllerName, routePrefix |-> routePrefix]

PathMappings ==
    {<<>>,
     <<RouteMapping(UserController, UsersPrefix)>>,
     <<RouteMapping(PostController, PostsPrefix), RouteMapping(UserController, UsersPrefix)>>}

\* class UserController { @Get(path) m1() {} }
OneRouteClass(path) ==
    MakeClass(UserController, <<[mws |-> <<>>, routeInfo |-> <<RouteDecorator("get", path)>>]>>)

PathInit ==
    /\ \E path \in AnyPaths :
         /\ controllers = MapSet(<<>>, UserController, ControllerMetadataOf(OneRouteClass(path)))
         /\ registered = Put(EmptyMap, UserController, ControllerMetadataOf(OneRouteClass(path)))
    /\ routeMappings \in PathMappings
    /\ ret = NoReturn
    /\ IdleInit

CallGenerateSpec(basePath) ==
    /\ ret' = Returned("generateSpec", <<>>, basePath, "", <<>>, GenerateSpec(basePath), <<>>)
    /\ generated' = Put(generated, basePath, GenerateSpec(basePath))
    /\ UNCHANGED <<controllers, routeMappings, discVars, now, rlVars, cacheVars, snapshot, registered, served, initialized>>

PathNext == \E basePath \in BasePaths : CallGenerateSpec(basePath)

SpecPath == PathInit /\ [][PathNext]_vars

(***************************************************************************)
(* C3: path-normalization law                                              *)
(***************************************************************************)
RECURSIVE Flatten(_)
Flatten(chunks) == IF chunks = <<>> THEN <<>> ELSE Head(chunks) \o Flatten(Tail(chunks))

\* p with every ":seg" rewritten to "{seg}", described segment by segment: in a
\* segment (a maximal run without "/") the first ":" that has a character after
\* it becomes "{" and "}" is added after the segment's last character.
BraceForm(p) ==
    LET segStart(i) == CHOOSE j \in 1..i :
                          /\ \A k \in j..i : p[k] # Slash
                          /\ j = 1 \/ p[j - 1] = Slash
        segEnd(i) == CHOOSE j \in i..Len(p) :
                          /\ \A k \in i..j : p[k] # Slash
                          /\ j = Len(p) \/ p[j + 1] = Slash
        colons(i) == {c \in segStart(i)..(segEnd(i) - 1) : p[c] = Colon}
        firstColon(i) == CHOOSE c \in colons(i) : \A d \in colons(i) : c <= d
        chunk(i) ==
            IF p[i] = Slash \/ colons(i) = {} THEN <<p[i]>>
            ELSE (IF i = firstColon(i) THEN <<"{">> ELSE <<p[i]>>)
                 \o (IF i = segEnd(i) THEN <<"}">> ELSE <<>>)
    IN  Flatten([i \in 1..Len(p) |-> chunk(i)])

TheRoute == RegistryGet(UserController)[1].routes[1]

MappedPrefix ==
    IF \E i \in 1..Len(routeMappings) : routeMappings[i].controllerName = UserController
    THEN UsersPrefix ELSE <<>>

\* C3: the document generateSpec returns holds the route under exactly one
\* path: basePath + routePrefix when the route path is "/", and otherwise
\* basePath + routePrefix + the path with each ":seg" written "{seg}" and
\* every other character as it was.
C3_PathNormalization ==
    ret.op = "generateSpec" =>
        LET expected ==
                IF TheRoute.path = <<Slash>> THEN ret.basePath \o MappedPrefix
                ELSE ret.basePath \o MappedPrefix \o BraceForm(TheRoute.path)
        IN  /\ DOMAIN ret.paths = {expected}
            /\ DOMAIN ret.paths[expected] = {TheRoute.method}

\* a document was generated for a route with two named segments under a prefix
C3_Witness ==
    /\ ret.op = "generateSpec"
    /\ Len(PathParams(TheRoute.path)) = 2
    /\ MappedPrefix # <<>>
    /\ ret.basePath # <<>>


(***************************************************************************)
(* Rate limiter (createRateLimitMiddleware)                                *)
(***************************************************************************)
TooManyRequests == 429

\* the options of the rate-limited routes of the model
Limiters == {[windowMs |-> 2, maxRequests |-> 3], [windowMs |-> 3, maxRequests |-> 1]}

\* what keyGenerator(req) returns
RateLimitKeys == {"ip1", "ip2"}

Remove(f, k) == [x \in (DOMAIN f) \ {k} |-> f[x]]

\* mutant: the difference is not clamped at 0
MaximumUnclamped(a, b) == b

Maximum(a, b) == IF a >= b THEN a ELSE b

\* Math.ceil(a / b) for a >= 0, b > 0
CeilDiv(a, b) == (a + b - 1) \div b

\* "Clean up old entries"
CleanUp(store, key, windowStart) ==
    IF key \in DOMAIN store /\ store[key].resetTime < windowStart
    THEN Remove(store, key)
    ELSE store

\* mutant: an update also stamps the entry with the updating limiter's window
CountRestamping(store, key, time, windowMs) ==
    IF key \notin DOMAIN store
    THEN Put(store, key, [count |-> 1, resetTime |-> time + windowMs])
    ELSE [store EXCEPT ![key] = [count |-> @.count + 1, resetTime |-> time + windowMs]]

\* "Initialize or update counter"
Count(store, key, time, windowMs) ==
    IF key \notin DOMAIN store
    THEN Put(store, key, [count |-> 1, resetTime |-> time + windowMs])
    ELSE [store EXCEPT ![key].count = @ + 1]

\* mutant: the limit is reached one request early
ExceededAtLimit(count, maxRequests) == count >= maxRequests

\* current.count > maxRequests
Exceeded(count, maxRequests) == count > maxRequests

\* the middleware's answer to one request
RateLimitAnswer(limiter, key, time, prior, current) ==
    [key |-> key, limiter |-> limiter, at |-> time, prior |-> prior,
     count |-> current.count, resetTime |-> current.resetTime,
     limit |-> limiter.maxRequests,
     remaining |-> Maximum(0, limiter.maxRequests - current.count),
     reset |-> CeilDiv(current.resetTime, 1000),
     status |-> IF Exceeded(current.count, limiter.maxRequests) THEN <<TooManyRequests>> ELSE <<>>,
     nextCalled |-> ~Exceeded(current.count, limiter.maxRequests)]

\* the requests a key has been answered under the window it was last told of
NoteWindow(windows, key, resetTime) ==
    IF key \in DOMAIN windows /\ windows[key].resetTime = resetTime
    THEN [windows EXCEPT ![key].n = @ + 1]
    ELSE Put(windows, key, [resetTime |-> resetTime, n |-> 1])

RateLimitRequest(limiter, key) ==
    LET windowStart == now - limiter.windowMs
        prior == IF key \in DOMAIN rateLimitStore THEN <<rateLimitStore[key]>> ELSE <<>>
        cleaned == CleanUp(rateLimitStore, key, windowStart)
        counted == Count(cleaned, key, now, limiter.windowMs)
        current == counted[key]
    IN  /\ current.count <= MaxCount
        /\ rateLimitStore' = counted
        /\ rlLast' = <<RateLimitAnswer(limiter, key, now, prior, current)>>
        /\ rlWindow' = NoteWindow(rlWindow, key, current.resetTime)
        /\ UNCHANGED <<regVars, discVars, now, cacheVars, heldVars>>

\* the clock moves on between requests
Tick ==
    /\ now < MaxTime
    /\ now' = now + 1
    /\ UNCHANGED <<regVars, discVars, rlVars, cacheVars, heldVars>>

RateLimitInit == RegInit /\ IdleInit

RateLimitNext ==
    \/ \E limiter \in Limiters : \E key \in RateLimitKeys : RateLimitRequest(limiter, key)
    \/ Tick

SpecRateLimit == RateLimitInit /\ [][RateLimitNext]_vars

\* C4: a request that arrives inside the window it is counted in (not later
\* than that window's reset time) is passed onward when it is one of the first
\* maxRequests requests of its key in that window, and is answered 429 without
\* next being called when it is a later one.
C4_LimitWithinWindow ==
    rlLast # <<>> =>
        LET r == rlLast[1]
            nth == rlWindow[r.key].n
        IN  r.at <= r.resetTime =>
              /\ nth <= r.limiter.maxRequests => (r.nextCalled /\ r.status = <<>>)
              /\ nth > r.limiter.maxRequests =>
                    (~r.nextCalled /\ r.status = <<TooManyRequests>>)

\* the 4th request of a key inside one window of the limiter with maxRequests = 3
C4_Witness ==
    /\ rlLast # <<>>
    /\ rlLast[1].limiter.maxRequests = 3
    /\ rlLast[1].at <= rlLast[1].resetTime
    /\ rlWindow[rlLast[1].key].n = 4
    /\ rlLast[1].status = <<TooManyRequests>>

\* C5: a request that arrives later than the reset time of the entry stored
\* for its key starts a new window: the stored count becomes 1, the reset time
\* is new, and the request is admitted.
C5_ResetAfterResetTime ==
    rlLast # <<>> =>
        LET r == rlLast[1]
        IN  (r.prior # <<>> /\ r.at > r.prior[1].resetTime) =>
              /\ rateLimitStore[r.key].count = 1
              /\ rateLimitStore[r.key].resetTime = r.at + r.limiter.windowMs
              /\ r.nextCalled


(***************************************************************************)
(* Response cache (createCacheMiddleware)                                  *)
(***************************************************************************)
\* the options @Cache may be given; condition says whether a condition
\* predicate is among them
CacheOptions == {[ttl |-> 2, condition |-> FALSE], [ttl |-> 2, condition |-> TRUE]}

\* what keyGenerator(req) returns
CacheKeys == {"GET:/users"}

\* what a terminal handler passes to res.json, and the status it has set
Payloads == {"v1", "v2"}
Statuses == {200, 299, 300}

CacheGet(key) == IF key \in DOMAIN cache THEN <<cache[key]>> ELSE <<>>

\* mutant: an entry is still served at the instant it expires
IsFreshAtExpiry(cachedEntry, time) == cachedEntry # <<>> /\ cachedEntry[1].expiresAt >= time

\* cachedEntry && cachedEntry.expiresAt > now
IsFresh(cachedEntry, time) == cachedEntry # <<>> /\ cachedEntry[1].expiresAt > time

\* mutant: success statuses other than 200 only
ShouldStoreAbove200(options, conditionHolds, statusCode) ==
    /\ ~options.condition \/ conditionHolds
    /\ statusCode > 200 /\ statusCode < 300

\* mutant: the status test of the wrapped res.json is left out
ShouldStoreAnyStatus(options, conditionHolds, statusCode) ==
    ~options.condition \/ conditionHolds

\* the two tests of the wrapped res.json
ShouldStore(options, conditionHolds, statusCode) ==
    /\ ~options.condition \/ conditionHolds
    /\ statusCode >= 200 /\ statusCode < 300

\* mutant: the expiry is counted from the call of res.json
CacheEntryFromEmission(data, ttl, arrivedAt, storedAt) ==
    [data |-> data, expiresAt |-> storedAt + ttl, storedAt |-> storedAt]

\* the entry cache.set writes; storedAt is not in the code: it is the time at
\* which cache.set ran
CacheEntry(data, ttl, arrivedAt, storedAt) ==
    [data |-> data, expiresAt |-> arrivedAt + ttl, storedAt |-> storedAt]

\* what a request finds under its key when it arrives: nothing, or an entry
\* and whether ttl has elapsed since that entry was stored
Seen(cachedEntry, time, ttl) ==
    IF cachedEntry = <<>> THEN "nothing"
    ELSE IF time >= cachedEntry[1].storedAt + ttl THEN "elapsed" ELSE "within ttl"

\* replaced is not in the code: it is the expiresAt of the entry the store held
\* under the key when res.json was called
CacheResponse(key, xCache, data, statusCode, nextCalled, arrivedAt, seen, conditionHolds, replaced) ==
    [key |-> key, xCache |-> xCache, data |-> data, status |-> statusCode,
     nextCalled |-> nextCalled, arrivedAt |-> arrivedAt, seen |-> seen,
     conditionHolds |-> conditionHolds, replaced |-> replaced]

\* a request reaches the cache middleware: a hit is answered at once, a miss
\* wraps res.json and calls next
CacheRequest(key) ==
    LET cachedEntry == CacheGet(key)
        seen == Seen(cachedEntry, now, cacheOptions.ttl)
    IN  IF IsFresh(cachedEntry, now)
        THEN /\ cacheLast' = <<CacheResponse(key, "HIT", cachedEntry[1].data, 200, FALSE,
                                             now, seen, TRUE, <<>>)>>
             /\ UNCHANGED <<cache, pending, cacheOptions, regVars, discVars, now, rlVars, heldVars>>
        ELSE /\ Len(pending) < MaxPending
             /\ pending' = Append(pending, [key |-> key, arrivedAt |-> now, seen |-> seen])
             /\ UNCHANGED <<cache, cacheLast, cacheOptions, regVars, discVars, now, rlVars, heldVars>>

\* the terminal handler of the i-th waiting request calls res.json(data);
\* conditionHolds is what options.condition(req, res) returns when it is given
HandlerResponds(i, data, statusCode, conditionHolds) ==
    LET req == pending[i]
    IN  /\ cacheOptions.condition \/ conditionHolds
        /\ cache' = IF ShouldStore(cacheOptions, conditionHolds, statusCode)
                    THEN Put(cache, req.key, CacheEntry(data, cacheOptions.ttl, req.arrivedAt, now))
                    ELSE cache
        /\ cacheLast' = <<CacheResponse(req.key, "MISS", data, statusCode, TRUE,
                                        req.arrivedAt, req.seen, conditionHolds,
                                        [n \in 1..Len(CacheGet(req.key)) |->
                                            CacheGet(req.key)[n].expiresAt])>>
        /\ pending' = SubSeq(pending, 1, i - 1) \o SubSeq(pending, i + 1, Len(pending))
        /\ UNCHANGED <<cacheOptions, regVars, discVars, now, rlVars, heldVars>>

\* the clock moves on between requests and responses
CacheTick ==
    /\ now < MaxCacheTime
    /\ now' = now + 1
    /\ UNCHANGED <<regVars, discVars, rlVars, cacheVars, heldVars>>

CacheInit ==
    /\ RegInit
    /\ disc = NoDiscovery
    /\ loaded = {}
    /\ now = 0
    /\ rateLimitStore = EmptyMap
    /\ rlWindow = EmptyMap
    /\ rlLast = <<>>
    /\ cache = EmptyMap
    /\ cacheOptions \in CacheOptions
    /\ pending = <<>>
    /\ cacheLast = <<>>
    /\ snapshot = <<>>
    /\ served = <<>>
    /\ initialized = <<>>
    /\ generated = EmptyMap

CacheNext ==
    \/ \E key \in CacheKeys : CacheRequest(key)
    \/ \E i \in 1..Len(pending), data \in Payloads, statusCode \in Statuses, conditionHolds \in BOOLEAN :
          HandlerResponds(i, data, statusCode, conditionHolds)
    \/ CacheTick

SpecCache == CacheInit /\ [][CacheNext]_vars

\* the entry under key can still be served at time: it exists and fewer than
\* ttl time units have passed since the request that produced it arrived
ServableAt(key, time) == key \in DOMAIN cache /\ time < cache[key].expiresAt

\* the step is the arrival of a request for key that is passed down the chain
PassedOn(key) ==
    /\ Len(pending') = Len(pending) + 1
    /\ pending'[Len(pending')].key = key

Success(statusCode) == statusCode \in 200..299

\* C6: a GET that misses and ends with a success status, the condition
\* predicate (when one is given) passing, is marked MISS and its payload is
\* stored with an expiry of ttl after its arrival; a GET with the same key that
\* arrives less than ttl after that arrival is never passed down the chain, and
\* its answer is marked HIT and carries the stored payload.
C6_StoreThenHit ==
    /\ [](\A r \in Range(cacheLast) :
            /\ (r.nextCalled /\ Success(r.status) /\ (cacheOptions.condition => r.conditionHolds))
               => /\ r.xCache = "MISS"
                  /\ r.key \in DOMAIN cache
                  /\ cache[r.key].data = r.data
                  /\ cache[r.key].expiresAt = r.arrivedAt + cacheOptions.ttl
            /\ r.xCache = "HIT"
               => /\ ~r.nextCalled
                  /\ ServableAt(r.key, r.arrivedAt)
                  /\ r.data = cache[r.key].data)
    /\ [][\A key \in CacheKeys : ServableAt(key, now) => ~PassedOn(key)]_vars

\* a hit on an entry that a request with a passing condition predicate stored
C6_Witness ==
    /\ cacheOptions.condition
    /\ \E r \in Range(cacheLast) :
          /\ r.xCache = "HIT"
          /\ r.arrivedAt > cache[r.key].storedAt
          /\ r.data = cache[r.key].data

\* C6 as stated: every GET that misses and ends with a success status has its
\* payload stored
C6_AsStated ==
    \A r \in Range(cacheLast) :
        (r.nextCalled /\ Success(r.status))
        => r.key \in DOMAIN cache /\ cache[r.key].data = r.data

DotController == <<".", "c", "o", "n", "t", "r", "o", "l", "l", "e", "r">>
DotTs == <<".", "t", "s">>
DotJs == <<".", "j", "s">>

\* names a controllers directory may list
FileNames ==
    {<<"u", "s", "e", "r">> \o DotController \o DotTs,
     <<"p", "o", "s", "t">> \o DotController \o DotTs,
     <<"n", "e", "w", "s">> \o DotController \o DotJs,
     <<"u", "s", "e", "r">> \o <<".", "s", "e", "r", "v", "i", "c", "e">> \o DotTs}

\* what importing a file does: its top-level code may throw before the class
\* and its @Controller decorator are reached, or after them
Outcomes == {"loads", "throws before registering", "throws after registering"}

File(name, outcome) == [name |-> name, outcome |-> outcome]

Throws(file) == file.outcome # "loads"
Registers(file) == file.outcome # "throws before registering"

\* fs.readdirSync lists every name once
Listings ==
    {files \in SeqsUpTo({File(name, outcome) : name \in FileNames, outcome \in Outcomes}, MaxFiles) :
        \A i, j \in 1..Len(files) : i # j => files[i].name # files[j].name}

Directory(exists, files) == [exists |-> exists, files |-> files]

Directories == {Directory(FALSE, <<>>)} \cup {Directory(TRUE, files) : files \in Listings}

\* String.prototype.endsWith
EndsWith(str, suffix) ==
    /\ Len(suffix) <= Len(str)
    /\ SubSeq(str, Len(str) - Len(suffix) + 1, Len(str)) = suffix

\* path.extname: from the last dot on
ExtName(file) ==
    LET dots == {i \in 2..Len(file) : file[i] = "."}
    IN  IF dots = {} THEN <<>> ELSE SubSeq(file, (CHOOSE i \in dots : \A j \in dots : j <= i), Len(file))

\* path.basename(file, ext)
BaseName(file, ext) ==
    IF ext # <<>> /\ EndsWith(file, ext) /\ Len(ext) < Len(file)
    THEN SubSeq(file, 1, Len(file) - Len(ext))
    ELSE file

\* String.prototype.replace with a string pattern: the first occurrence only
ReplaceString(str, pattern, replacement) ==
    LET at == {i \in 1..(Len(str) - Len(pattern) + 1) : SubSeq(str, i, i + Len(pattern) - 1) = pattern}
    IN  IF at = {} THEN str
        ELSE LET i == CHOOSE k \in at : \A m \in at : k <= m
             IN  SubSeq(str, 1, i - 1) \o replacement \o SubSeq(str, i + Len(pattern), Len(str))

ToUpperCase(char) ==
    CASE char = "u" -> "U"
      [] char = "p" -> "P"
      [] char = "n" -> "N"
      [] OTHER -> char

EntityName(file) == ReplaceString(BaseName(file, ExtName(file)), DotController, <<>>)

\* entityName.charAt(0).toUpperCase() + entityName.slice(1) + "Controller"
DiscoveredControllerName(file) ==
    LET entityName == EntityName(file)
    IN  (IF entityName = <<>> THEN <<>> ELSE <<ToUpperCase(Head(entityName))>> \o Tail(entityName))
        \o ControllerSuffix

\* `/${entityName}${entityName.endsWith("s") ? "" : "s"}`
DiscoveredRoutePrefix(file) ==
    LET entityName == EntityName(file)
    IN  <<Slash>> \o entityName \o (IF EndsWith(entityName, <<"s">>) THEN <<>> ELSE <<"s">>)

IsControllerFile(file) ==
    EndsWith(file, DotController \o DotJs) \/ EndsWith(file, DotController \o DotTs)

\* files.filter(...)
ControllerFiles(files) == SelectSeq(files, LAMBDA file : IsControllerFile(file.name))

\* the class a controller file defines:
\* @Controller() class <Entity>Controller { @Get("/") m1() {} }
ClassIn(file) ==
    MakeClass(DiscoveredControllerName(file.name),
              <<[mws |-> <<>>, routeInfo |-> <<RouteDecorator("get", RootPath)>>]>>)

\* mutant: a failing import ends the loop (no try around the import)
NextFileAborting(file, index, count) == IF Throws(file) THEN count + 1 ELSE index + 1

\* the index the for-of loop goes on with once the import of file has settled;
\* the try around the import catches what it throws
NextFile(file, index, count) == index + 1

\* autoDiscoverControllers(controllersDir) up to its first await
StartDiscovery(dir) ==
    /\ ~disc.running
    /\ disc.result = <<>>
    /\ IF ~dir.exists
       THEN /\ disc' = [disc EXCEPT !.dir = <<dir>>, !.result = <<disc.mappings>>]
            /\ ret' = Returned("autoDiscoverControllers", <<>>, <<>>, "", <<>>, EmptyMap, disc.mappings)
       ELSE /\ disc' = [disc EXCEPT !.running = TRUE, !.dir = <<dir>>,
                                    !.files = ControllerFiles(dir.files)]
            /\ ret' = ret
    /\ UNCHANGED <<controllers, routeMappings, loaded, now, rlVars, cacheVars, heldVars>>

\* one turn of the loop: the mapping is pushed, then the file is imported
LoadFile ==
    /\ disc.running
    /\ disc.next <= Len(disc.files)
    /\ LET file == disc.files[disc.next]
       IN  /\ disc' = [disc EXCEPT
                         !.mappings = Append(@, RouteMapping(DiscoveredControllerName(file.name),
                                                             DiscoveredRoutePrefix(file.name))),
                         !.next = NextFile(file, disc.next, Len(disc.files))]
           /\ controllers' = IF Registers(file)
                             THEN MapSet(controllers, ControllerNameOf(<<>>, ClassIn(file)),
                                         ControllerMetadataOf(ClassIn(file)))
                             ELSE controllers
           /\ registered' = IF Registers(file)
                            THEN Put(registered, ControllerNameOf(<<>>, ClassIn(file)),
                                     ControllerMetadataOf(ClassIn(file)))
                            ELSE registered
           /\ loaded' = IF Throws(file) THEN loaded ELSE loaded \cup {file.name}
    /\ generated' = EmptyMap
    /\ UNCHANGED <<routeMappings, ret, now, rlVars, cacheVars, snapshot, served, initialized>>

\* return mappings, and initialize() keeps them as the route mappings
FinishDiscovery ==
    /\ disc.running
    /\ disc.next > Len(disc.files)
    /\ disc' = [disc EXCEPT !.running = FALSE, !.result = <<disc.mappings>>]
    /\ routeMappings' = disc.mappings
    /\ ret' = IF ret.op = "initialize" THEN ret
              ELSE Returned("autoDiscoverControllers", <<>>, <<>>, "", <<>>, EmptyMap, disc.mappings)
    /\ generated' = EmptyMap
    /\ initialized' = [n \in 1..Len(initialized) |->
                          [initialized[n] EXCEPT !.mappings = disc.mappings]]
    /\ UNCHANGED <<controllers, loaded, now, rlVars, cacheVars, snapshot, registered, served>>

DiscoveryInit == RegInit /\ IdleInit

DiscoveryNext ==
    \/ \E dir \in Directories : StartDiscovery(dir)
    \/ LoadFile
    \/ FinishDiscovery

SpecDiscovery == DiscoveryInit /\ [][DiscoveryNext]_vars

\* the files autoDiscoverControllers was called on
Listed == IF disc.dir = <<>> THEN {} ELSE Range(disc.dir[1].files)

Finished == disc.result # <<>>

\* C9: when one controller file of the directory throws while being loaded,
\* discovery still returns a mapping for every other controller file, and the
\* files after the failing one are loaded: the controller each of them defines
\* is registered.
C9_DiscoveryContinues ==
    (Finished /\ \E bad \in Listed : IsControllerFile(bad.name) /\ Throws(bad))
    => \A file \in Listed :
          (IsControllerFile(file.name) /\ ~Throws(file))
          => /\ RouteMapping(DiscoveredControllerName(file.name), DiscoveredRoutePrefix(file.name))
                \in Range(disc.result[1])
             /\ file.name \in loaded
             /\ MapHas(controllers, DiscoveredControllerName(file.name))

\* the first controller file threw and a later one was loaded and mapped
C9_Witness ==
    /\ Finished
    /\ disc.dir # <<>>
    /\ Len(disc.files) >= 2
    /\ disc.files[1].outcome = "throws before registering"
    /\ disc.files[Len(disc.files)].outcome = "loads"
    /\ disc.files[Len(disc.files)].name \in loaded
    /\ \E m \in Range(disc.result[1]) :
          m.controllerName = DiscoveredControllerName(disc.files[Len(disc.files)].name)

\* C10: the mapping list autoDiscoverControllers returns has no entry for a
\* controller whose file threw while being loaded.
C10_FailedFileHasNoMapping ==
    Finished
    => \A file \in Listed :
          (IsControllerFile(file.name) /\ Throws(file))
          => \A m \in Range(disc.result[1]) : m.controllerName # DiscoveredControllerName(file.name)

(***************************************************************************)
(* Document specification: controllers are registered, route mappings are  *)
(* added, and the whole document is generated                              *)
(***************************************************************************)
RouteMappings ==
    {RouteMapping(UserController, UsersPrefix),
     RouteMapping(PostController, PostsPrefix),
     RouteMapping(PostController, UsersPrefix)}

\* mutant: the mapping is pushed even when the controller already has one
AddRouteMappingPushing(mapping) ==
    /\ ret = NoReturn
    /\ Len(routeMappings) < 3
    /\ routeMappings' = Append(routeMappings, mapping)
    /\ generated' = EmptyMap
    /\ UNCHANGED <<controllers, ret, discVars, now, rlVars, cacheVars, snapshot, registered, served, initialized>>

\* OpenAPIGenerator.addRouteMapping(mapping)
AddRouteMapping(mapping) ==
    LET existing == {i \in 1..Len(routeMappings) :
                        routeMappings[i].controllerName = mapping.controllerName}
    IN  /\ ret = NoReturn
        /\ routeMappings' =
              IF existing # {}
              THEN [routeMappings EXCEPT ![CHOOSE i \in existing : \A j \in existing : i <= j] = mapping]
              ELSE Append(routeMappings, mapping)
        /\ routeMappings' # routeMappings
        /\ generated' = EmptyMap
        /\ UNCHANGED <<controllers, ret, discVars, now, rlVars, cacheVars, snapshot, registered, served, initialized>>

\* the classes whose every method is a route: a method without route
\* metadata never reaches the document
RouteClasses ==
    {cls \in Classes : \A i \in 1..Len(cls.methods) : cls.methods[i].routeInfo # <<>>}

DocumentNext ==
    \/ \E cls \in RouteClasses : \E nameArg \in NameArgs(cls) : Controller(nameArg, cls)
    \/ \E mapping \in RouteMappings : AddRouteMapping(mapping)
    \/ \E basePath \in RouterBasePaths : CallGenerateSpec(basePath)
    \/ Release

SpecDocument == Init /\ [][DocumentNext]_vars

MapDelete(m, k) == SelectSeq(m, LAMBDA e : e.name # k)

\* mutant: "return this.controllers", the registry's own Map
GetAllControllersLive == [alias |-> TRUE, entries |-> <<>>]

\* ControllerRegistry.getAllControllers: "return new Map(this.controllers)".
\* The Map handed out is an object of its own (alias FALSE) holding the entries
\* the registry had at the call.
GetAllControllers == [alias |-> FALSE, entries |-> controllers]

\* the entries a caller finds in the Map it holds
Observed ==
    IF snapshot = <<>> THEN <<>>
    ELSE IF snapshot[1].alias THEN controllers ELSE snapshot[1].entries

CallGetAllControllers ==
    /\ snapshot = <<>>
    /\ snapshot' = <<GetAllControllers>>
    /\ UNCHANGED <<regVars, discVars, now, rlVars, cacheVars, generated, registered, served, initialized>>

\* the holder calls set(name, metadata) on the Map it was given
SnapshotSet(name, metadata) ==
    /\ snapshot # <<>>
    /\ IF snapshot[1].alias
       THEN /\ controllers' = MapSet(controllers, name, metadata)
            /\ snapshot' = snapshot
       ELSE /\ snapshot' = <<[snapshot[1] EXCEPT !.entries = MapSet(@, name, metadata)]>>
            /\ controllers' = controllers
    /\ UNCHANGED <<routeMappings, ret, discVars, now, rlVars, cacheVars, generated, registered, served, initialized>>

\* the holder calls delete(name) on the Map it was given
SnapshotDelete(name) ==
    /\ snapshot # <<>>
    /\ IF snapshot[1].alias
       THEN /\ controllers' = MapDelete(controllers, name)
            /\ snapshot' = snapshot
       ELSE /\ snapshot' = <<[snapshot[1] EXCEPT !.entries = MapDelete(@, name)]>>
            /\ controllers' = controllers
    /\ UNCHANGED <<routeMappings, ret, discVars, now, rlVars, cacheVars, generated, registered, served, initialized>>

\* the holder lets go of the Map
DropSnapshot ==
    /\ snapshot # <<>>
    /\ snapshot' = <<>>
    /\ UNCHANGED <<regVars, discVars, now, rlVars, cacheVars, generated, registered, served, initialized>>

\* controllerRegistry.get(name)
CallGet(name) ==
    /\ ret' = Returned("get", name, <<>>, "", <<>>, EmptyMap, RegistryGet(name))
    /\ UNCHANGED <<controllers, routeMappings, discVars, now, rlVars, cacheVars, heldVars>>

\* controllerRegistry.getControllerMethods(name)
CallGetControllerMethods(name) ==
    /\ ret' = Returned("getControllerMethods", name, <<>>, "", <<>>, EmptyMap,
                       GetControllerMethods(name))
    /\ UNCHANGED <<controllers, routeMappings, discVars, now, rlVars, cacheVars, heldVars>>

\* the metadata a holder may put into its Map
SnapshotMetas == {ExternalMetadata(<<ExternalRoute("put", IdPath, "m1")>>)}

RegistryNext ==
    \/ \E cls \in PostClasses : \E nameArg \in NameArgs(cls) : Controller(nameArg, cls)
    \/ \E name \in RegisteredNames : \E metadata \in ExternalMetas : Register(name, metadata)
    \/ CallGetAllControllers
    \/ \E name \in QueryNames : \E metadata \in SnapshotMetas : SnapshotSet(name, metadata)
    \/ \E name \in QueryNames : SnapshotDelete(name)
    \/ DropSnapshot
    \/ \E name \in QueryNames : CallGet(name)
    \/ \E name \in QueryNames : CallGetControllerMethods(name)
    \/ \E name \in QueryNames : CallGetControllerRoutes(name)
    \/ Release

SpecRegistry == Init /\ [][RegistryNext]_vars

\* C12: while a caller holds a Map obtained from getAllControllers and does not
\* itself modify it, the entries it finds there (keys and the metadata under
\* each key) stay as they are, whatever is registered meanwhile; and when the
\* caller sets or deletes an entry of its Map the registry stays as it was.
C12_SnapshotIsACopy ==
    [][(snapshot # <<>> /\ snapshot' # <<>>)
       => /\ snapshot' = snapshot => Observed' = Observed
          /\ snapshot' # snapshot => controllers' = controllers]_vars

\* the registry has overwritten one name and added another since the Map was
\* obtained, and the holder has modified its Map
C12_Witness ==
    /\ snapshot # <<>>
    /\ Len(controllers) = 2
    /\ \E name \in RegisteredNames :
          /\ MapHas(Observed, name)
          /\ MapGet(Observed, name) # MapGet(controllers, name)
    /\ MapHas(Observed, Nonexistent)
    /\ ~MapHas(controllers, Nonexistent)

IsLookup(r) == r.op \in {"get", "getControllerMethods", "getControllerRoutes"}

\* C13: the registry holds at most one record per name, and get(name) returns
\* the metadata of the most recent register(name, ...); get,
\* getControllerMethods and getControllerRoutes on a name that was never
\* registered return undefined and raise nothing; a step that changes the
\* registry is a register call, and no lookup changes it.
C13_LastRegistrationWins ==
    /\ [](/\ \A i, j \in 1..Len(controllers) :
               controllers[i].name = controllers[j].name => i = j
          /\ \A name \in QueryNames :
               RegistryGet(name) = IF name \in DOMAIN registered
                                   THEN <<registered[name]>> ELSE <<>>
          /\ (ret.op = "get" /\ ret.name \in DOMAIN registered)
               => ret.value = <<registered[ret.name]>>
          /\ (IsLookup(ret) /\ ret.name \notin DOMAIN registered)
               => ret.value = <<>> /\ ret.error = "")
    /\ [][/\ controllers' # controllers => registered' # registered
          /\ (IsLookup(ret') /\ (ret'.op # ret.op \/ ret'.name # ret.name))
               => controllers' = controllers]_vars

\* get returned a metadata other than the one a Map obtained earlier still
\* shows under that name: the name was registered again since
C13_Witness ==
    /\ ret.op = "get"
    /\ ret.name \in DOMAIN registered
    /\ ret.value = <<registered[ret.name]>>
    /\ snapshot # <<>>
    /\ MapHas(Observed, ret.name)
    /\ MapGet(Observed, ret.name)[1] \notin SnapshotMetas
    /\ MapGet(Observed, ret.name) # ret.value
    /\ Len(controllers) = 2

(***************************************************************************)
(* C14: what the router builders mount                                     *)
(***************************************************************************)
Mountable(routes) == {i \in 1..Len(routes) : routes[i].method \in SupportedVerbs}

\* C14: the router createRouter / buildRoutes return for a registered
\* controller holds one entry per route whose verb is get, post, put, patch or
\* delete, in the order of the controller's routes; the entry is under the
\* route's verb at basePath + route.path and its handlers are the route's
\* middlewares in order followed by the route's handler; routes with any other
\* verb have no entry, and the routes after them still have theirs.
C14_RouterMountsRoutesInOrder ==
    (IsBuilderCall(ret) /\ RegistryGet(ret.name) # <<>>) =>
        LET routes == RegistryGet(ret.name)[1].routes
        IN  /\ ret.error = ""
            /\ ret.router # <<>>
            /\ Len(ret.router[1]) = Cardinality(Mountable(routes))
            /\ \A i \in Mountable(routes) :
                  LET entry == ret.router[1][RankAmong(Mountable(routes), i)]
                  IN  /\ entry.verb = routes[i].method
                      /\ entry.path = ret.basePath \o routes[i].path
                      /\ entry.handlers = routes[i].middlewares \o <<routes[i].handler>>

\* a router was built under a base path for a controller whose first route has
\* an unknown verb and whose second route was mounted
C14_Witness ==
    /\ IsBuilderCall(ret)
    /\ ret.basePath # <<>>
    /\ RegistryGet(ret.name) # <<>>
    /\ LET routes == RegistryGet(ret.name)[1].routes
       IN  /\ Len(routes) = 2
           /\ routes[1].method \notin SupportedVerbs
           /\ Len(ret.router[1]) = 1
           /\ ret.router[1][1].path = ret.basePath \o routes[2].path

(***************************************************************************)
(* OpenAPIGenerator.initialize and the two other mapping strategies        *)
(***************************************************************************)
ToLowerCase(char) ==
    CASE char = "U" -> "u"
      [] char = "P" -> "p"
      [] char = "N" -> "n"
      [] char = "C" -> "c"
      [] OTHER -> char

\* generateDynamicRouteMappings: one mapping per registered controller
DynamicRouteMapping(controllerName) ==
    LET replaced == ReplaceString(controllerName, ControllerSuffix, <<>>)
        entityName == [i \in 1..Len(replaced) |-> ToLowerCase(replaced[i])]
    IN  RouteMapping(controllerName,
                     <<Slash>> \o entityName
                     \o (IF EndsWith(entityName, <<"s">>) THEN <<>> ELSE <<"s">>))

GenerateDynamicRouteMappings ==
    [i \in 1..Len(controllers) |-> DynamicRouteMapping(controllers[i].name)]

\* routes/index.ts as autoDiscoverRouteMappings reads it: whether the file
\* exists, its router.use("<prefix>", <variable>) statements in order, and its
\* "import <variable> from '<file>'" statements
DotRoutes == <<".", "r", "o", "u", "t", "e", "s">>
RouterUse(routePrefix, routerVariable) ==
    [routePrefix |-> routePrefix, routerVariable |-> routerVariable]

Import(routerVariable, routeFile) ==
    [routerVariable |-> routerVariable, routeFile |-> routeFile]

RoutesIndex(exists, uses, imports) == [exists |-> exists, uses |-> uses, imports |-> imports]

RoutesDirs ==
    {RoutesIndex(FALSE, <<>>, <<>>),
     RoutesIndex(TRUE,
                 <<RouterUse(PostsPrefix, "postRoutes"), RouterUse(<<"/", "c", "o", "m", "m", "e", "n", "t", "s">>, "commentRoutes"),
                   RouterUse(UsersPrefix, "userRoutes")>>,
                 <<Import("userRoutes", <<".", "/", "u", "s", "e", "r">> \o DotRoutes),
                   Import("postRoutes", <<".", "/", "p", "o", "s", "t">> \o DotRoutes)>>)}

\* path.basename(routeFile, ".routes").replace(/[.-]/g, "")
RouteName(routeFile) ==
    LET slashes == {i \in 1..Len(routeFile) : routeFile[i] = Slash}
        last == IF slashes = {} THEN routeFile
                ELSE SubSeq(routeFile, (CHOOSE i \in slashes : \A j \in slashes : j <= i) + 1,
                            Len(routeFile))
    IN  SelectSeq(BaseName(last, DotRoutes), LAMBDA c : c \notin {".", "-"})

RECURSIVE MappingsOfUses(_, _)
MappingsOfUses(uses, imports) ==
    IF uses = <<>> THEN <<>>
    ELSE LET use == Head(uses)
             importMatch == SelectSeq(imports, LAMBDA im : im.routerVariable = use.routerVariable)
             rest == MappingsOfUses(Tail(uses), imports)
         IN  IF importMatch = <<>> THEN rest
             ELSE LET routeName == RouteName(importMatch[1].routeFile)
                      controllerName ==
                          (IF routeName = <<>> THEN <<>>
                           ELSE <<ToUpperCase(Head(routeName))>> \o Tail(routeName))
                          \o ControllerSuffix
                  IN  <<RouteMapping(controllerName, use.routePrefix)>> \o rest

\* autoDiscoverRouteMappings(routesDir)
AutoDiscoverRouteMappings(routesDir) ==
    IF ~routesDir.exists THEN <<>> ELSE MappingsOfUses(routesDir.uses, routesDir.imports)

\* the arguments of initialize; an argument that is not passed is <<>>
CustomMappings ==
    {<<>>, <<<<>>>>, <<<<RouteMapping(UserController, PostsPrefix)>>>>}

ControllersDirs ==
    {<<>>,
     <<Directory(FALSE, <<>>)>>,
     <<Directory(TRUE, <<File(<<"n", "e", "w", "s">> \o DotController \o DotJs, "loads")>>)>>,
     <<Directory(TRUE, <<File(<<"p", "o", "s", "t">> \o DotController \o DotTs,
                              "throws before registering")>>)>>}

RoutesDirArgs == {<<>>} \cup {<<dir>> : dir \in RoutesDirs}

Arguments(routesDir, customMappings, controllersDir) ==
    [routesDir |-> routesDir, customMappings |-> customMappings,
     controllersDir |-> controllersDir]

\* mutant of the strategy choice: controllersDir is looked at first
StrategyDirFirst(args) ==
    IF args.controllersDir # <<>> THEN "controllersDir"
    ELSE IF args.customMappings # <<>> THEN "customMappings"
    ELSE IF args.routesDir # <<>> THEN "routesDir"
    ELSE "registry"

\* the branch of the if / else-if chain of initialize that is taken
Strategy(args) ==
    IF args.customMappings # <<>> THEN "customMappings"
    ELSE IF args.controllersDir # <<>> THEN "controllersDir"
    ELSE IF args.routesDir # <<>> THEN "routesDir"
    ELSE "registry"

\* initialize(routesDir, customMappings, controllersDir), up to its first await
CallInitialize(routesDir, customMappings, controllersDir) ==
    LET args == Arguments(routesDir, customMappings, controllersDir)
        strategy == Strategy(args)
        discovers == strategy = "controllersDir" /\ controllersDir[1].exists
    IN  /\ ~disc.running
        /\ ret = NoReturn
        /\ ret' = Returned("initialize", <<>>, <<>>, "", <<>>, EmptyMap, <<args>>)
        /\ disc' = IF strategy = "controllersDir"
                   THEN [NoDiscovery EXCEPT
                           !.dir = controllersDir,
                           !.running = discovers,
                           !.files = IF discovers THEN ControllerFiles(controllersDir[1].files)
                                     ELSE <<>>,
                           !.result = IF discovers THEN <<>> ELSE <<<<>>>>]
                   ELSE NoDiscovery
        /\ routeMappings' =
              CASE strategy = "customMappings" -> customMappings[1]
                [] strategy = "controllersDir" -> IF discovers THEN routeMappings ELSE <<>>
                [] strategy = "routesDir"      -> AutoDiscoverRouteMappings(routesDir[1])
                [] OTHER                       -> GenerateDynamicRouteMappings
        /\ generated' = EmptyMap
        /\ initialized' = <<[mappings |-> routeMappings', names |-> Range(MapKeys(controllers))]>>
        /\ UNCHANGED <<controllers, loaded, now, rlVars, cacheVars, snapshot, registered, served>>

InitializeNext ==
    \/ \E cls \in PostClasses : \E nameArg \in NameArgs(cls) : Controller(nameArg, cls)
    \/ \E metadata \in ExternalMetas : Register(UserController, metadata)
    \/ \E routesDir \in RoutesDirArgs, customMappings \in CustomMappings,
          controllersDir \in ControllersDirs :
          CallInitialize(routesDir, customMappings, controllersDir)
    \/ LoadFile
    \/ FinishDiscovery
    \/ Release

SpecInitialize == Init /\ [][InitializeNext]_vars

\* the arguments of the call of initialize that ret records
InitializeArgs == ret.value[1]

Supplied(argument) == argument # <<>>

\* C15: initialize resolves the route mappings by exactly one strategy, in the
\* precedence customMappings, controllersDir, routesDir, registry: supplied
\* custom mappings become the mapping list as they are and no discovery runs;
\* the controllers directory is discovered only when no custom mappings are
\* supplied; the routes directory is read only when neither is supplied; the
\* registry-derived mappings are used only when none of the three is supplied.
C15_InitializePrecedence ==
    /\ [](ret.op = "initialize" =>
            LET args == InitializeArgs
            IN  /\ Supplied(args.customMappings)
                   => routeMappings = args.customMappings[1] /\ disc = NoDiscovery
                /\ (~Supplied(args.customMappings) /\ Supplied(args.controllersDir))
                   => /\ disc.dir = args.controllersDir
                      /\ Finished => routeMappings = disc.result[1]
                /\ (~Supplied(args.customMappings) /\ ~Supplied(args.controllersDir)
                    /\ Supplied(args.routesDir))
                   => /\ routeMappings = AutoDiscoverRouteMappings(args.routesDir[1])
                      /\ disc = NoDiscovery
                /\ (~Supplied(args.customMappings) /\ ~Supplied(args.controllersDir)
                    /\ ~Supplied(args.routesDir))
                   => /\ routeMappings = GenerateDynamicRouteMappings
                      /\ disc = NoDiscovery)
    /\ [][(ret'.op = "initialize" /\ ret.op # "initialize"
           /\ (Supplied(ret'.value[1].customMappings) \/ ~Supplied(ret'.value[1].controllersDir)))
          => loaded' = loaded /\ controllers' = controllers]_vars

\* custom mappings were supplied together with both directories, and a later
\* call with nothing supplied fell back to a registry that is not empty
C15_Witness ==
    /\ ret.op = "initialize"
    /\ Supplied(InitializeArgs.customMappings)
    /\ Supplied(InitializeArgs.controllersDir)
    /\ InitializeArgs.controllersDir[1].exists
    /\ Supplied(InitializeArgs.routesDir)
    /\ routeMappings = InitializeArgs.customMappings[1]
    /\ routeMappings # <<>>
    /\ controllers # <<>>

(***************************************************************************)
(* Stacked cross-cutting annotators                                        *)
(***************************************************************************)
\* the methods of the registered classes, each with the annotators applied to
\* it (in order of application) and the metadata Controller stored for it
StackedMethods ==
    UNION {{[applied |-> controllers[i].meta.target.methods[j].mws,
             stored |-> controllers[i].meta.methods[controllers[i].meta.target.methods[j].name]] :
               j \in 1..Len(controllers[i].meta.target.methods)} :
           i \in 1..Len(controllers)}

\* C16 (amended): the chain of a method keeps the order in which the
\* annotators were applied: the middleware of the annotator applied first
\* (the innermost one) is the first entry and runs first, and the middleware
\* of the outermost-applied annotator is the last one before the handler.
C16_ChainKeepsApplicationOrder ==
    \A m \in StackedMethods :
        m.stored.middlewares = [i \in 1..Len(m.applied) |-> Middleware(m.applied[i])]

C16_Witness ==
    \E m \in StackedMethods :
        /\ Len(m.applied) = 2
        /\ m.applied[1] # m.applied[2]
        /\ m.stored.middlewares[1] = Middleware(m.applied[1])
        /\ m.stored.middlewares[2] = Middleware(m.applied[2])

\* C16 as stated: the middleware of the outermost-applied annotator is the
\* first entry of the chain.
C16_AsStated ==
    \A m \in StackedMethods :
        m.applied # <<>> => m.stored.middlewares[1] = Middleware(m.applied[Len(m.applied)])

(***************************************************************************)
(* Receivers and wrappers of the terminal handlers                         *)
(***************************************************************************)
\* the controllers Controller registered, as opposed to metadata handed to
\* register directly
ClassControllers == {i \in 1..Len(controllers) : controllers[i].meta.instance # <<>>}

StoredMethods(metadata) == {metadata.methods[n] : n \in DOMAIN metadata.methods}

\* C17: for every enumerated method of a class Controller registered, plain or
\* turned into a middleware array by annotators, the terminal handler stored
\* in the metadata is bound to the one instance Controller created.
C17_HandlersBoundToInstance ==
    \A i \in ClassControllers :
        \A mm \in StoredMethods(controllers[i].meta) :
            /\ mm.handler.receiver = controllers[i].meta.instance
            /\ mm.boundHandler.receiver = controllers[i].meta.instance

\* the export object Controller builds: constructor.getExports()
GetExports(metadata) ==
    [n \in DOMAIN metadata.methods |->
        LET methodMeta == metadata.methods[n]
        IN  IF Len(methodMeta.middlewares) > 0
            THEN [isArray |-> TRUE,
                  items |-> Append(methodMeta.middlewares, methodMeta.boundHandler)]
            ELSE FunctionValue(methodMeta.boundHandler)]

\* what a controller module exports for its routes file:
\* const userController = new UserController();
\* export const getUsers = userController.getUsers; ...
\* reading a method off the new instance yields the prototype's property
ModuleExports(cls) ==
    LET props == MethodNames(Prototype(cls))
    IN  [n \in {props[i].name : i \in 1..Len(props)} |->
            props[CHOOSE i \in 1..Len(props) : props[i].name = n].value]

\* the last entry of a chain, or the function itself
TerminalHandler(value) == value.items[Len(value.items)]

\* C18: every terminal handler that can be handed to the host router is the
\* catchAsync wrapper: the handler of every route in the registry, every entry
\* of getExports() and every handler a controller module exports.
C18_EveryHandlerIsWrapped ==
    /\ \A i \in 1..Len(controllers) :
          \A r \in 1..Len(controllers[i].meta.routes) :
              controllers[i].meta.routes[r].handler.wrapped
    /\ \A i \in ClassControllers :
          LET metadata == controllers[i].meta
          IN  /\ \A n \in DOMAIN metadata.methods :
                    TerminalHandler(GetExports(metadata)[n]).wrapped
              /\ \A n \in DOMAIN ModuleExports(metadata.target) :
                    TerminalHandler(ModuleExports(metadata.target)[n]).wrapped

(***************************************************************************)
(* The response catalog of the generated operations                        *)
(***************************************************************************)
\* the operations of the document a generator returned last
ReturnedOperations ==
    UNION {{ret.paths[fullPath][method] : method \in DOMAIN ret.paths[fullPath]} :
           fullPath \in DOMAIN ret.paths}

\* C19: every operation object a documentation generator produces carries the
\* statuses 200, 400, 401, 403, 404, 429 and 500.
C19_BaselineCatalog ==
    \A operation \in ReturnedOperations :
        {200, 400, 401, 403, 404, 429, 500} \subseteq operation.responses

(***************************************************************************)
(* Completeness of the assembled document                                  *)
(***************************************************************************)
\* the routes of the registry: the controller's name with each of its routes
RegisteredRoutes ==
    UNION {{[controllerName |-> controllers[i].name, route |-> controllers[i].meta.routes[r]] :
              r \in 1..Len(controllers[i].meta.routes)} :
           i \in 1..Len(controllers)}

\* C20: the document generateSpec assembles holds, for every registered
\* controller and every one of its routes, an operation under the key
\* basePath + routePrefix + normalizedPath and the route's verb: no operation
\* is lost because another controller or route resolves to the same path.
C20_NoOperationLost ==
    ret.op = "generateSpec" =>
        \A rr \in RegisteredRoutes :
            LET fullPath == FullPath(ret.basePath, RoutePrefixOf(rr.controllerName),
                                     PathKey(rr.route.path))
            IN  /\ fullPath \in DOMAIN ret.paths
                /\ rr.route.method \in DOMAIN ret.paths[fullPath]

(***************************************************************************)
(* The spec endpoint: app.get(specPath, createSpecMiddleware(basePath))    *)
(***************************************************************************)
\* mutant: the document of the previous request for the same basePath is reused
SpecMiddlewareReusing(basePath) ==
    IF served # <<>> /\ served[Len(served)].basePath = basePath
    THEN served[Len(served)].paths
    ELSE GenerateSpec(basePath)

\* the handler createSpecMiddleware(basePath) returns: the paths of res.json(spec)
SpecMiddleware(basePath) == GenerateSpec(basePath)

\* a GET request to the spec path
SpecRequest(basePath) ==
    LET spec == [basePath |-> basePath, paths |-> SpecMiddleware(basePath)]
    IN  /\ ret = NoReturn
        /\ ret' = Returned("GET spec", <<>>, basePath, "", <<>>, spec.paths, <<>>)
        /\ served' = IF Len(served) = 2 THEN <<served[2], spec>> ELSE Append(served, spec)
        /\ UNCHANGED <<controllers, routeMappings, discVars, now, rlVars, cacheVars,
                       snapshot, generated, registered, initialized>>

EndpointNext ==
    \/ \E cls \in PostClasses : \E nameArg \in NameArgs(cls) : Controller(nameArg, cls)
    \/ \E name \in RegisteredNames : \E metadata \in ExternalMetas : Register(name, metadata)
    \/ \E basePath \in RouterBasePaths : SpecRequest(basePath)
    \/ Release

SpecEndpoint == Init /\ [][EndpointNext]_vars

\* C21: every answer of the spec endpoint is the document generated from the
\* registry as it is at that request: the routes of the controller the
\* registry holds last are in it, and it is what generateSpec returns then,
\* whatever an earlier request was answered with.
C21_SpecEndpointRegenerates ==
    ret.op = "GET spec" =>
        /\ served # <<>>
        /\ served[Len(served)].paths = ret.paths
        /\ ret.paths = GenerateSpec(ret.basePath)
        /\ controllers # <<>> =>
              LET last == controllers[Len(controllers)].meta.routes
              IN  \A r \in 1..Len(last) :
                     LET fullPath == FullPath(ret.basePath, <<>>, PathKey(last[r].path))
                     IN  /\ fullPath \in DOMAIN ret.paths
                         /\ last[r].method \in DOMAIN ret.paths[fullPath]

\* two requests for the same basePath with an overwriting registration between
\* them: the second answer differs from the first
C21_Witness ==
    /\ ret.op = "GET spec"
    /\ Len(served) = 2
    /\ served[1].basePath = served[2].basePath
    /\ served[1].paths # served[2].paths
    /\ DOMAIN served[1].paths # {}
    /\ Len(controllers) = 1

(***************************************************************************)
(* The headers of the rate limiter                                         *)
(***************************************************************************)
\* C22: the answer to every request the rate limiter processes, admitted or
\* rejected with 429, carries the limit, remaining and reset headers; the
\* remaining header is maxRequests less the key's current count, or 0 when
\* the count has reached maxRequests, so it is never negative.
C22_RemainingHeader ==
    rlLast # <<>> =>
        LET r == rlLast[1]
            maxRequests == r.limiter.maxRequests
        IN  /\ r.key \in DOMAIN rateLimitStore
            /\ r.count = rateLimitStore[r.key].count
            /\ r.limit = maxRequests
            /\ r.reset * 1000 >= rateLimitStore[r.key].resetTime
            /\ (r.reset - 1) * 1000 < rateLimitStore[r.key].resetTime
            /\ r.remaining >= 0
            /\ r.remaining = IF r.count >= maxRequests THEN 0 ELSE maxRequests - r.count
            /\ r.status \in {<<>>, <<TooManyRequests>>}

\* a request was rejected with a count two above the limit
C22_Witness ==
    /\ rlLast # <<>>
    /\ rlLast[1].status = <<TooManyRequests>>
    /\ rlLast[1].count >= rlLast[1].limit + 2
    /\ rlLast[1].remaining = 0

(***************************************************************************)
(* What a cache miss stores                                                *)
(***************************************************************************)
\* the step is a call of the wrapped res.json
Responds == Len(pending') < Len(pending)

\* C23: on a cache miss the payload is stored only when the response status is
\* in 200..299 and the condition predicate, when one is given, passes; with
\* any other status or a failing predicate the store is left as it was; the
\* response is marked MISS in every case.
C23_MissStoresOnlySuccess ==
    [][Responds =>
         LET r == cacheLast'[1]
             storable == Success(r.status) /\ (cacheOptions.condition => r.conditionHolds)
         IN  /\ r.xCache = "MISS"
             /\ ~storable => cache' = cache
             /\ cache' # cache => storable
             /\ storable => cache'[r.key].data = r.data]_vars

\* a miss that ended with status 300 left the payload of an earlier miss in
\* the store
C23_Witness ==
    \E r \in Range(cacheLast) :
        /\ r.xCache = "MISS"
        /\ r.status = 300
        /\ r.key \in DOMAIN cache
        /\ cache[r.key].data # r.data

\* C24: an entry that a lookup finds stale is evicted at that lookup: while
\* the request that found it waits for its handler, the store holds no entry
\* under its key other than one stored after the lookup.
C24_StaleLookupEvicts ==
    \A i \in 1..Len(pending) :
        pending[i].seen # "nothing"
        => \/ pending[i].key \notin DOMAIN cache
           \/ cache[pending[i].key].storedAt >= pending[i].arrivedAt

(***************************************************************************)
(* addRouteMapping                                                         *)
(***************************************************************************)
MappingsOf(mappings, controllerName) ==
    {i \in 1..Len(mappings) : mappings[i].controllerName = controllerName}

\* C25: addRouteMapping is an upsert by controllerName: an existing mapping of
\* the controller is replaced in place and the list keeps its length,
\* otherwise the mapping is appended; the mappings of other controllers stay
\* as they are, and the document generateSpec returns next has the
\* controller's routes under the prefix of the mapping the list holds for it.
C25_AddRouteMappingUpserts ==
    /\ [][routeMappings' # routeMappings =>
            \E name \in RegisteredNames :
                /\ Cardinality(MappingsOf(routeMappings', name)) = 1
                /\ IF MappingsOf(routeMappings, name) # {}
                   THEN /\ Len(routeMappings') = Len(routeMappings)
                        /\ MappingsOf(routeMappings', name) = MappingsOf(routeMappings, name)
                   ELSE /\ Len(routeMappings') = Len(routeMappings) + 1
                        /\ MappingsOf(routeMappings', name) = {Len(routeMappings')}
                /\ \A i \in 1..Len(routeMappings) :
                      routeMappings[i].controllerName # name
                      => routeMappings'[i] = routeMappings[i]]_vars
    /\ [](ret.op = "generateSpec" =>
            \A i \in 1..Len(routeMappings) : \A rr \in RegisteredRoutes :
                rr.controllerName = routeMappings[i].controllerName
                => FullPath(ret.basePath, routeMappings[i].routePrefix, PathKey(rr.route.path))
                      \in DOMAIN ret.paths)

\* both controllers are mapped, PostController to the prefix of the second
\* mapping offered for it, and the document has its route under that prefix
C25_Witness ==
    /\ ret.op = "generateSpec"
    /\ Len(routeMappings) = 2
    /\ routeMappings[1] = RouteMapping(PostController, UsersPrefix)
    /\ routeMappings[2].controllerName = UserController
    /\ \E rr \in RegisteredRoutes :
          /\ rr.controllerName = PostController
          /\ FullPath(ret.basePath, UsersPrefix, PathKey(rr.route.path)) \in DOMAIN ret.paths
          /\ FullPath(ret.basePath, PostsPrefix, PathKey(rr.route.path)) \notin DOMAIN ret.paths

(***************************************************************************)
(* Cross-cutting annotators applied to one method, one after the other     *)
(***************************************************************************)
Annotators == {"rateLimit", "cache", "logRequest", "monitor"}

\* descriptor.value of the method being decorated, with the annotators
\* applied to it so far
Descriptor(owner, method, applied, value) ==
    Returned("annotate", owner, <<>>, "", <<>>, EmptyMap,
             [method |-> method, applied |-> applied, descriptor |-> value])

\* the class body declares the method
DeclareMethod(owner, method) ==
    /\ ret' = Descriptor(owner, method, <<>>, FunctionValue(RawMethod(owner, method)))
    /\ UNCHANGED <<controllers, routeMappings, discVars, now, rlVars, cacheVars, heldVars>>

\* RateLimit / Cache / LogRequest / Monitor applied to the method
ApplyAnnotator(factory) ==
    /\ ret.op = "annotate"
    /\ Len(ret.value.applied) < MaxAnnotators
    /\ ret' = Descriptor(ret.name, ret.value.method, Append(ret.value.applied, factory),
                         Annotate(ret.value.descriptor, Middleware(factory)))
    /\ UNCHANGED <<controllers, routeMappings, discVars, now, rlVars, cacheVars, heldVars>>

AnnotateNext ==
    \/ \E owner \in RegisteredNames, method \in {"m1", "m2"} : DeclareMethod(owner, method)
    \/ \E factory \in Annotators : ApplyAnnotator(factory)

SpecAnnotate == Init /\ [][AnnotateNext]_vars

\* C26: after any sequence of cross-cutting annotators applied to one method,
\* the method's value is a list whose last entry is the original handler and
\* whose entries before it are the annotators' middlewares in the order of
\* application; one more annotator inserts exactly one middleware just before
\* the handler and leaves the earlier entries and their order as they were.
C26_AnnotatorsBuildChain ==
    /\ [](ret.op = "annotate" =>
            LET value == ret.value.descriptor
                applied == ret.value.applied
                original == RawMethod(ret.name, ret.value.method)
            IN  IF applied = <<>>
                THEN ~value.isArray /\ value.items = <<original>>
                ELSE /\ value.isArray
                     /\ value.items = [i \in 1..Len(applied) |-> Middleware(applied[i])]
                                      \o <<original>>)
    /\ [][(ret.op = "annotate" /\ ret'.op = "annotate"
           /\ Len(ret'.value.applied) = Len(ret.value.applied) + 1)
          => LET before == ret.value.descriptor.items
                 after == ret'.value.descriptor.items
                 n == Len(before)
             IN  /\ Len(after) = n + 1
                 /\ SubSeq(after, 1, n - 1) = SubSeq(before, 1, n - 1)
                 /\ after[n] = Middleware(ret'.value.applied[n])
                 /\ after[n + 1] = before[n]]_vars

\* three different annotators were applied to one method
C26_Witness ==
    /\ ret.op = "annotate"
    /\ ret.value.applied = <<"rateLimit", "cache", "monitor">>
    /\ Len(ret.value.descriptor.items) = 4
    /\ ret.value.descriptor.items[2] = Middleware("cache")

(***************************************************************************)
(* One rate-limit store for every limiter                                  *)
(***************************************************************************)
\* C27: the limiters share one store: a request with key k through any limiter
\* adds one to the counter the store holds for k, whichever limiter created
\* it, and leaves its resetTime as the creating limiter computed it; a new
\* entry gets the resetTime of the limiter that creates it; the limiter
\* compares the common counter with its own maxRequests; the entries of the
\* other keys are not changed.
C27_SharedStore ==
    [][rateLimitStore' # rateLimitStore =>
         LET r == rlLast'[1]
             kept == /\ r.key \in DOMAIN rateLimitStore
                     /\ rateLimitStore[r.key].resetTime >= now - r.limiter.windowMs
         IN  /\ \A k \in RateLimitKeys \ {r.key} :
                   /\ k \in DOMAIN rateLimitStore' <=> k \in DOMAIN rateLimitStore
                   /\ k \in DOMAIN rateLimitStore => rateLimitStore'[k] = rateLimitStore[k]
             /\ IF kept
                THEN /\ rateLimitStore'[r.key].count = rateLimitStore[r.key].count + 1
                     /\ rateLimitStore'[r.key].resetTime = rateLimitStore[r.key].resetTime
                ELSE rateLimitStore'[r.key] = [count |-> 1, resetTime |-> now + r.limiter.windowMs]
             /\ r.nextCalled <=> rateLimitStore'[r.key].count <= r.limiter.maxRequests
             /\ r.status = <<TooManyRequests>> <=> ~r.nextCalled]_vars

\* the limiter with windowMs = 3 and maxRequests = 1 rejected the second
\* request of a key whose entry the limiter with windowMs = 2 had created
C27_Witness ==
    /\ rlLast # <<>>
    /\ rlLast[1].limiter = [windowMs |-> 3, maxRequests |-> 1]
    /\ rlLast[1].at = 0
    /\ rateLimitStore[rlLast[1].key] = [count |-> 2, resetTime |-> 2]
    /\ rlLast[1].status = <<TooManyRequests>>
    /\ DOMAIN rateLimitStore = RateLimitKeys

(***************************************************************************)
(* Overlapping requests with one cache key                                 *)
(***************************************************************************)
\* C28: a request that arrives while another request with its key still waits
\* for its handler, the store holding no servable entry, is a miss as well and
\* is passed on; every success response writes the store, so the entry that
\* survives is the payload of the response emitted last, with an expiresAt of
\* that request's arrival time + ttl, whatever entry it replaces.
C28_LastEmissionWins ==
    /\ [](\A r \in Range(cacheLast) :
            (r.xCache = "MISS" /\ Success(r.status)
             /\ (cacheOptions.condition => r.conditionHolds))
            => /\ cache[r.key].data = r.data
               /\ cache[r.key].expiresAt = r.arrivedAt + cacheOptions.ttl)
    /\ [][\A key \in CacheKeys :
            ((\E i \in 1..Len(pending) : pending[i].key = key)
             /\ ~ServableAt(key, now)
             /\ cacheLast' # cacheLast /\ ~Responds)
            => PassedOn(key)]_vars
    /\ [][\A key \in CacheKeys : PassedOn(key) => cache' = cache /\ cacheLast' = cacheLast]_vars

\* the response emitted last came from the request that arrived first: it
\* replaced an entry that would have expired later than the one it wrote
C28_Witness ==
    \E r \in Range(cacheLast) :
        /\ r.xCache = "MISS"
        /\ Success(r.status)
        /\ r.replaced # <<>>
        /\ r.replaced[1] > cache[r.key].expiresAt
        /\ cache[r.key].data = r.data
        /\ cache[r.key].storedAt > r.arrivedAt
        /\ cache[r.key].expiresAt = r.arrivedAt + cacheOptions.ttl

(***************************************************************************)
(* Route prefixes after initialize: registration, addRouteMapping and      *)
(* generateSpec once the mappings have been resolved                       *)
(***************************************************************************)
PrefixNext ==
    \/ \E cls \in PostClasses : \E nameArg \in NameArgs(cls) : Controller(nameArg, cls)
    \/ \E metadata \in ExternalMetas : Register(UserController, metadata)
    \/ \E routesDir \in RoutesDirArgs, customMappings \in CustomMappings :
          CallInitialize(routesDir, customMappings, <<>>)
    \/ \E mapping \in RouteMappings : AddRouteMapping(mapping)
    \/ \E basePath \in RouterBasePaths : CallGenerateSpec(basePath)
    \/ Release

SpecPrefix == Init /\ [][PrefixNext]_vars

\* the prefix of the first mapping the list holds for the controller, if any
MappedPrefixOf(mappings, controllerName) ==
    IF MappingsOf(mappings, controllerName) = {} THEN <<>>
    ELSE <<mappings[CHOOSE i \in MappingsOf(mappings, controllerName) :
                       \A j \in MappingsOf(mappings, controllerName) : i <= j].routePrefix>>

\* the routes of the controller are documented under the prefix
DocumentedUnder(rr, prefix) ==
    LET fullPath == FullPath(ret.basePath, prefix, PathKey(rr.route.path))
    IN  fullPath \in DOMAIN ret.paths /\ rr.route.method \in DOMAIN ret.paths[fullPath]

\* the kind of step generateSpec takes
Generates ==
    /\ ret'.op = "generateSpec"
    /\ ret.op # "generateSpec" \/ ret'.basePath # ret.basePath \/ generated' # generated

\* C29 (amended): generateSpec never recomputes the route mappings; it
\* documents a controller whose name the mapping list does not hold, as is
\* every controller registered after a registry-derived initialize, with an
\* empty prefix until addRouteMapping supplies a mapping, and a controller
\* whose name the list holds under that mapping's prefix, whenever the
\* controller was registered.
C29_PrefixFromMappingList ==
    /\ [][Generates => routeMappings' = routeMappings /\ initialized' = initialized]_vars
    /\ [](ret.op = "generateSpec" =>
            \A rr \in RegisteredRoutes :
                LET mapped == MappedPrefixOf(routeMappings, rr.controllerName)
                    prefix(name) ==
                        IF MappedPrefixOf(routeMappings, name) = <<>> THEN <<>>
                        ELSE MappedPrefixOf(routeMappings, name)[1]
                    collides ==
                        \E other \in RegisteredRoutes :
                            /\ other.controllerName # rr.controllerName
                            /\ FullPath(ret.basePath, prefix(other.controllerName),
                                        PathKey(other.route.path))
                               = FullPath(ret.basePath, prefix(rr.controllerName),
                                          PathKey(rr.route.path))
                IN  ~collides =>
                      /\ mapped = <<>> => DocumentedUnder(rr, <<>>)
                      /\ mapped # <<>> => DocumentedUnder(rr, mapped[1]))
    /\ [](\A n \in 1..Len(initialized) : \A i \in 1..Len(controllers) :
            (ret.op = "initialize" /\ InitializeArgs.customMappings = <<>>
             /\ InitializeArgs.routesDir = <<>>)
            => (controllers[i].name \in initialized[n].names
                <=> MappingsOf(routeMappings, controllers[i].name) # {}))

\* a controller registered after a registry-derived initialize is documented
\* with an empty prefix, next to one that initialize found and mapped
C29_Witness ==
    /\ ret.op = "generateSpec"
    /\ ret.basePath # <<>>
    /\ initialized # <<>>
    /\ initialized[1].mappings = routeMappings
    /\ initialized[1].names = {UserController}
    /\ routeMappings = <<RouteMapping(UserController, UsersPrefix)>>
    /\ \E rr \in RegisteredRoutes :
          /\ rr.controllerName = PostController
          /\ rr.route.path = IdPath
          /\ DocumentedUnder(rr, <<>>)

\* C29 as stated: a controller registered after initialize has run is
\* documented with an empty prefix until addRouteMapping supplies a mapping
\* for it.
C29_AsStated ==
    (ret.op = "generateSpec" /\ initialized # <<>>) =>
        \A rr \in RegisteredRoutes :
            (/\ rr.controllerName \notin initialized[1].names
             /\ MappedPrefixOf(routeMappings, rr.controllerName)
                = MappedPrefixOf(initialized[1].mappings, rr.controllerName))
            => FullPath(ret.basePath, <<>>, PathKey(rr.route.path)) \in DOMAIN ret.paths

(***************************************************************************)
(* Example annotators: RequestBody / ResponseBody on one handler method,   *)
(* next to the route annotator, and what Controller and the generator make *)
(* of the method afterwards                                                *)
(***************************************************************************)
RequestExample(summary, value) == [summary |-> summary, value |-> value]

ResponseExample(status, summary, value) ==
    [status |-> status, summary |-> summary, value |-> value]

RequestExampleLists ==
    {<<RequestExample(<<"new">>, 1)>>,
     <<RequestExample(<<>>, 2), RequestExample(<<>>, 3)>>}

ResponseExampleLists ==
    {<<ResponseExample(201, <<"created">>, 1)>>,
     <<ResponseExample(200, <<>>, 2), ResponseExample(200, <<>>, 3)>>}

\* options of a route annotator: each kind of examples given or left out
RouteOptions ==
    [requestExamples : {<<>>} \cup {<<l>> : l \in RequestExampleLists},
     responseExamples : {<<>>} \cup {<<l>> : l \in ResponseExampleLists}]

\* the argument of RequestBody / ResponseBody: one example or an array of them
ExampleArguments(lists) ==
    {[isArray |-> TRUE, items |-> l] : l \in lists}
    \cup {[isArray |-> FALSE, items |-> <<l[1]>>] : l \in lists}

\* Array.isArray(examples) ? examples : [examples]
ExampleArray(examples) ==
    IF examples.isArray THEN examples.items ELSE <<examples.items[1]>>

\* Get / Post / ... : the "route:info" metadata
RouteInfoWith(verb, path, options) ==
    [method |-> verb, path |-> path,
     requestExamples |-> options.requestExamples,
     responseExamples |-> options.responseExamples]

\* { ...existingMetadata, requestExamples | responseExamples: exampleArray }
MergeExamples(existingMetadata, key, exampleArray) ==
    Put(existingMetadata, key, exampleArray)

\* the method under decoration: its two metadata keys, descriptor.value, the
\* annotators applied so far, the options the route annotator was given, and
\* the route and operation made from it
Decorated(applied, options, routeInfo, examples, descriptor, route, operation) ==
    Returned("examples", UserController, <<>>, "", <<>>, EmptyMap,
             [applied |-> applied, options |-> options, routeInfo |-> routeInfo,
              examples |-> examples, descriptor |-> descriptor,
              route |-> route, operation |-> operation])

Undecorated ==
    Decorated(<<>>, <<>>, <<>>, EmptyMap,
              FunctionValue(RawMethod(UserController, "m1")), <<>>, <<>>)

\* the class body declares the method
DeclareHandler ==
    /\ IF ret.op = "examples" THEN ret.value.applied # <<>> ELSE TRUE
    /\ ret' = Undecorated
    /\ UNCHANGED <<controllers, routeMappings, discVars, now, rlVars, cacheVars, heldVars>>

Decorating ==
    /\ ret.op = "examples"
    /\ ret.value.route = <<>>
    /\ Len(ret.value.applied) < MaxAnnotators

\* @Get(path, options) / @Post(path, options)
ApplyRoute(verb, options) ==
    /\ Decorating
    /\ ret.value.routeInfo = <<>>
    /\ ret' = [ret EXCEPT !.value.applied = Append(@, "Route"),
                          !.value.options = <<options>>,
                          !.value.routeInfo = <<RouteInfoWith(verb, RootPath, options)>>]
    /\ UNCHANGED <<controllers, routeMappings, discVars, now, rlVars, cacheVars, heldVars>>

\* @RequestBody(examples)
ApplyRequestBody(examples) ==
    /\ Decorating
    /\ ret' = [ret EXCEPT !.value.applied = Append(@, "RequestBody"),
                          !.value.examples =
                              MergeExamples(@, "requestExamples", ExampleArray(examples))]
    /\ UNCHANGED <<controllers, routeMappings, discVars, now, rlVars, cacheVars, heldVars>>

\* @ResponseBody(examples)
ApplyResponseBody(examples) ==
    /\ Decorating
    /\ ret' = [ret EXCEPT !.value.applied = Append(@, "ResponseBody"),
                          !.value.examples =
                              MergeExamples(@, "responseExamples", ExampleArray(examples))]
    /\ UNCHANGED <<controllers, routeMappings, discVars, now, rlVars, cacheVars, heldVars>>

\* @LogRequest()
ApplyLogRequest ==
    /\ Decorating
    /\ ret' = [ret EXCEPT !.value.applied = Append(@, "LogRequest"),
                          !.value.descriptor = Annotate(@, Middleware("logRequest"))]
    /\ UNCHANGED <<controllers, routeMappings, discVars, now, rlVars, cacheVars, heldVars>>

\* the entry Controller pushes to routes for the method
ExampleRoute(routeInfo, method, instance) ==
    LET middlewares == IF method.isArray
                       THEN SubSeq(method.items, 1, Len(method.items) - 1)
                       ELSE <<>>
        handler == IF method.isArray
                   THEN method.items[Len(method.items)]
                   ELSE Bind(method.items[1], instance)
    IN  [method |-> routeInfo.method,
         path |-> routeInfo.path,
         handler |-> CatchAsync(handler),
         middlewares |-> middlewares,
         requestExamples |-> routeInfo.requestExamples,
         responseExamples |-> routeInfo.responseExamples]

\* @Controller() on the class of the method
DecorateClass ==
    /\ ret.op = "examples"
    /\ ret.value.route = <<>>
    /\ ret.value.routeInfo # <<>>
    /\ ret' = [ret EXCEPT !.value.route =
                  <<ExampleRoute(ret.value.routeInfo[1], ret.value.descriptor,
                                 [class |-> UserController, serial |-> 1])>>]
    /\ UNCHANGED <<controllers, routeMappings, discVars, now, rlVars, cacheVars, heldVars>>

\* example.summary || `example${index + 1}`
RequestExampleKey(example, index) ==
    IF example.summary # <<>> /\ example.summary[1] # ""
    THEN example.summary[1]
    ELSE "example" \o ToString(index + 1)

\* example.summary || `example_${statusCode}`
ResponseExampleKey(example) ==
    IF example.summary # <<>> /\ example.summary[1] # ""
    THEN example.summary[1]
    ELSE "example_" \o ToString(example.status)

\* route.requestExamples.forEach((example, index) => ...), index from 0
RECURSIVE RequestBodyExamples(_, _, _)
RequestBodyExamples(examples, list, index) ==
    IF index >= Len(list) THEN examples
    ELSE LET example == list[index + 1]
         IN  RequestBodyExamples(
                 Put(examples, RequestExampleKey(example, index),
                     [summary |-> example.summary, value |-> example.value]),
                 list, index + 1)

\* route.responseExamples.forEach((example) => ...): per status code, the
\* examples of that response
RECURSIVE ResponseExamplesDocumented(_, _)
ResponseExamplesDocumented(responses, list) ==
    IF list = <<>> THEN responses
    ELSE LET example == Head(list)
             statusCode == example.status
             seeded == IF statusCode \in DOMAIN responses
                       THEN responses
                       ELSE Put(responses, statusCode, EmptyMap)
         IN  ResponseExamplesDocumented(
                 Put(seeded, statusCode,
                     Put(seeded[statusCode], ResponseExampleKey(example),
                         [summary |-> example.summary, value |-> example.value])),
                 Tail(list))

\* the example content of the operation object of one route
OperationExamples(route) ==
    [requestBody |->
         IF /\ route.requestExamples # <<>>
            /\ Len(route.requestExamples[1]) > 0
            /\ route.method \in {"post", "put", "patch"}
         THEN <<RequestBodyExamples(EmptyMap, route.requestExamples[1], 0)>>
         ELSE <<>>,
     responses |->
         IF route.responseExamples # <<>> /\ Len(route.responseExamples[1]) > 0
         THEN ResponseExamplesDocumented(EmptyMap, route.responseExamples[1])
         ELSE EmptyMap]

\* generateOpenAPISpec documents the route
DocumentExamples ==
    /\ ret.op = "examples"
    /\ ret.value.route # <<>>
    /\ ret.value.operation = <<>>
    /\ ret' = [ret EXCEPT !.value.operation = <<OperationExamples(ret.value.route[1])>>]
    /\ UNCHANGED <<controllers, routeMappings, discVars, now, rlVars, cacheVars, heldVars>>

ExamplesNext ==
    \/ DeclareHandler
    \/ \E verb \in {"get", "post"}, options \in RouteOptions : ApplyRoute(verb, options)
    \/ \E examples \in ExampleArguments(RequestExampleLists) : ApplyRequestBody(examples)
    \/ \E examples \in ExampleArguments(ResponseExampleLists) : ApplyResponseBody(examples)
    \/ ApplyLogRequest
    \/ DecorateClass
    \/ DocumentExamples

SpecExamples == Init /\ [][ExamplesNext]_vars

\* the examples a documented operation shows: request examples, and response
\* examples with their status
DocumentedRequestExamples(operation) ==
    IF operation.requestBody = <<>> THEN {}
    ELSE {RequestExample(operation.requestBody[1][k].summary,
                         operation.requestBody[1][k].value) :
          k \in DOMAIN operation.requestBody[1]}

DocumentedResponseExamples(operation) ==
    UNION {{ResponseExample(statusCode,
                            operation.responses[statusCode][k].summary,
                            operation.responses[statusCode][k].value) :
            k \in DOMAIN operation.responses[statusCode]} :
           statusCode \in DOMAIN operation.responses}

PassedExamples(given) == IF given = <<>> THEN {} ELSE Range(given[1])

\* C30: RequestBody and ResponseBody write only the "examples" metadata (each
\* keeps the other's examples, a second RequestBody replaces only the request
\* examples) and change neither the RouteInfo nor the middleware chain, so the
\* registered route carries exactly the examples of the route annotator's
\* options, and so does its documented operation (request examples being
\* compared on the verbs that document a request body: post, put, patch).
C30_ExamplesFromRouteOptions ==
    /\ [][ /\ ret.op = "examples"
           /\ ret'.op = "examples"
           /\ ret'.value.applied # <<>>
           /\ ret'.value.applied[Len(ret'.value.applied)] \in {"RequestBody", "ResponseBody"}
           /\ Len(ret'.value.applied) = Len(ret.value.applied) + 1
           => LET written == IF ret'.value.applied[Len(ret'.value.applied)] = "RequestBody"
                             THEN "requestExamples" ELSE "responseExamples"
              IN  /\ DOMAIN ret'.value.examples = DOMAIN ret.value.examples \cup {written}
                  /\ \A k \in DOMAIN ret.value.examples \ {written} :
                        ret'.value.examples[k] = ret.value.examples[k]
                  /\ ret'.value.routeInfo = ret.value.routeInfo
                  /\ ret'.value.descriptor = ret.value.descriptor ]_vars
    /\ [](ret.op = "examples" /\ ret.value.route # <<>>
          => /\ ret.value.route[1].requestExamples = ret.value.options[1].requestExamples
             /\ ret.value.route[1].responseExamples = ret.value.options[1].responseExamples)
    /\ [](ret.op = "examples" /\ ret.value.operation # <<>>
          => /\ ret.value.route[1].method \in {"post", "put", "patch"}
                => DocumentedRequestExamples(ret.value.operation[1])
                   = PassedExamples(ret.value.options[1].requestExamples)
             /\ DocumentedResponseExamples(ret.value.operation[1])
                = PassedExamples(ret.value.options[1].responseExamples))

=============================================================================
